---------------------------- MODULE Spec2Model ----------------------------
(***************************************************************************)
(* Acquisition-and-normalisation layer of streamlit-play:                  *)
(*   josaa_scraper.fetch_josaa_orcr_data  (GET, token replay, POST, table  *)
(*                                         selection, schema, rank clean)  *)
(*   nse_scraper.fetch_nse_option_data    (bootstrap GET, API GET, JSON    *)
(*                                         extraction)                     *)
(* A fetch call is a process; the network and the remote documents are the *)
(* environment and are chosen nondeterministically from bounded sets.      *)
(***************************************************************************)
EXTENDS Integers, Sequences, FiniteSets, TLC

\* ------------------------------------------------------------ bounds
\* Number of fetch calls that may run concurrently.
NCalls == 2

Calls == 1..NCalls

\* ------------------------------------------------------------ strings
\* A Python str is a sequence of one-character strings.
UpperChars == <<"A","B","C","D","E","F","G","H","I","J","K","L","M",
                "N","O","P","Q","R","S","T","U","V","W","X","Y","Z">>
LowerChars == <<"a","b","c","d","e","f","g","h","i","j","k","l","m",
                "n","o","p","q","r","s","t","u","v","w","x","y","z">>
DigitChars == <<"0","1","2","3","4","5","6","7","8","9">>

\* str.lower() on one character
LowerChar(ch) ==
    IF \E i \in 1..26 : UpperChars[i] = ch
    THEN LowerChars[CHOOSE i \in 1..26 : UpperChars[i] = ch]
    ELSE ch

\* str.lower()
Lower(s) == [i \in 1..Len(s) |-> LowerChar(s[i])]

\* `sub in s`
Contains(s, sub) ==
    \E i \in 1..(Len(s) - Len(sub) + 1) : SubSeq(s, i, i + Len(sub) - 1) = sub

\* s.endswith(suf)
EndsWith(s, suf) ==
    /\ Len(s) >= Len(suf)
    /\ SubSeq(s, Len(s) - Len(suf) + 1, Len(s)) = suf

IsSpace(ch) == ch = " "

RECURSIVE LStrip(_)
LStrip(s) == IF s # <<>> /\ IsSpace(Head(s)) THEN LStrip(Tail(s)) ELSE s

RECURSIVE RStrip(_)
RStrip(s) ==
    IF s # <<>> /\ IsSpace(s[Len(s)]) THEN RStrip(SubSeq(s, 1, Len(s) - 1)) ELSE s

\* str.strip()
Strip(s) == RStrip(LStrip(s))

\* s.replace(old, ""): every non-overlapping occurrence, scanning left to right
RECURSIVE Remove(_, _)
Remove(s, old) ==
    IF Len(s) < Len(old) THEN s
    ELSE IF SubSeq(s, 1, Len(old)) = old
         THEN Remove(SubSeq(s, Len(old) + 1, Len(s)), old)
         ELSE <<Head(s)>> \o Remove(Tail(s), old)

IsDigit(ch) == \E i \in 1..10 : DigitChars[i] = ch
DigitVal(ch) == (CHOOSE i \in 1..10 : DigitChars[i] = ch) - 1

RECURSIVE DigitsToInt(_)
DigitsToInt(s) ==
    IF s = <<>> THEN 0
    ELSE 10 * DigitsToInt(SubSeq(s, 1, Len(s) - 1)) + DigitVal(s[Len(s)])

\* str(n) for a non-negative int
RECURSIVE IntToChars(_)
IntToChars(n) ==
    IF n < 10 THEN <<DigitChars[n + 1]>>
    ELSE IntToChars(n \div 10) \o <<DigitChars[(n % 10) + 1]>>

\* ------------------------------------------------------------ cell values
\* A DataFrame cell or column label: a str, a number, or NaN/None.
StrV(s) == [t |-> "str", s |-> s, n |-> 0]
NumV(n) == [t |-> "num", s |-> <<>>, n |-> n]
NaN == [t |-> "nan", s |-> <<>>, n |-> 0]

\* str(x) of a cell or label
PyStr(v) ==
    CASE v.t = "str" -> v.s
      [] v.t = "num" -> IntToChars(v.n)
      [] OTHER -> <<"n","a","n">>

\* pd.to_numeric(s, errors='coerce') on a scalar str over the model's alphabet
\* (digits, letters, blank, parentheses): surrounding blanks are ignored, a
\* run of digits is the number, anything else coerces to NaN.
to_numeric(s) ==
    LET body == Strip(s) IN
    IF body # <<>> /\ \A i \in 1..Len(body) : IsDigit(body[i])
    THEN NumV(DigitsToInt(body))
    ELSE NaN

PwDSuffix == <<" ","(","P","w","D",")">>

\* clean_rank (nested in fetch_josaa_orcr_data); None and NaN are both NaN here
clean_rank(rank_str) ==
    IF rank_str.t = "nan" THEN NaN
    ELSE LET s0 == Strip(PyStr(rank_str)) IN
         IF s0 = <<>> THEN NaN
         ELSE LET s == Remove(s0, PwDSuffix) IN
              IF EndsWith(s, <<"P">>) THEN to_numeric(SubSeq(s, 1, Len(s) - 1))
              ELSE to_numeric(s)

\* ------------------------------------------------------------ DataFrames
\* A DataFrame: its column labels and its rows (each row one cell per column).
DF(columns, rows) == [columns |-> columns, rows |-> rows]

\* pd.DataFrame()
EmptyDF == DF(<<>>, <<>>)

S_Institute == <<"I","n","s","t","i","t","u","t","e">>
S_Program == <<"P","r","o","g","r","a","m">>
S_Quota == <<"Q","u","o","t","a">>
S_Category == <<"C","a","t","e","g","o","r","y">>
S_Gender == <<"G","e","n","d","e","r">>
S_OpeningRank == <<"O","p","e","n","i","n","g","R","a","n","k">>
S_ClosingRank == <<"C","l","o","s","i","n","g","R","a","n","k">>

kw_institute == <<"i","n","s","t","i","t","u","t","e">>
kw_program == <<"p","r","o","g","r","a","m">>
kw_quota == <<"q","u","o","t","a">>
kw_seat_type == <<"s","e","a","t"," ","t","y","p","e">>
kw_category == <<"c","a","t","e","g","o","r","y">>
kw_gender == <<"g","e","n","d","e","r">>
kw_opening == <<"o","p","e","n","i","n","g">>
kw_closing == <<"c","l","o","s","i","n","g">>
kw_rank == <<"r","a","n","k">>

CanonicalColumns ==
    <<StrV(S_Institute), StrV(S_Program), StrV(S_Quota), StrV(S_Category),
      StrV(S_Gender), StrV(S_OpeningRank), StrV(S_ClosingRank)>>

\* df.shape[1]
NCols(df) == Len(df.columns)

\* df.empty
IsEmptyDF(df) == Len(df.columns) = 0 \/ Len(df.rows) = 0

\* A failure value that is no frame at all (return None).
JosaaFailure_none == [none |-> TRUE]

\* Line 205: the value returned after a handler has run, pd.DataFrame().
JosaaFailure == EmptyDF

\* What a step of the parsing pipeline gives: a frame, or an exception class.
Ok(df, msgs) == [exc |-> "", df |-> df, log |-> msgs]
Raise(e, msgs) == [exc |-> e, df |-> EmptyDF, log |-> msgs]

\* The same, with the position in dfs of the table bound to data_df
\* (0 while data_df is None).
Selected(o, k) == [exc |-> o.exc, df |-> o.df, log |-> o.log, data_df |-> k]

\* pd.read_html(text): the tables of the document in document order;
\* raises ValueError("No tables found") when the document holds none.
read_html(body) ==
    IF Len(body) = 0 THEN Raise("ValueError", <<>>)
    ELSE [exc |-> "", dfs |-> body, log |-> <<>>]

\* A selection loop whose test is `>= 5`.
RECURSIVE select_table_from_5(_, _)
select_table_from_5(dfs, i) ==
    IF i > Len(dfs) THEN 0
    ELSE IF NCols(dfs[i]) >= 5 THEN i
    ELSE select_table_from_5(dfs, i + 1)

\* The selection loop, scanning from index i: the first candidate with more
\* than 5 columns, 0 when the loop ends with data_df still None.
RECURSIVE select_table(_, _)
select_table(dfs, i) ==
    IF i > Len(dfs) THEN 0
    ELSE IF NCols(dfs[i]) > 5 THEN i
    ELSE select_table(dfs, i + 1)

\* all(isinstance(col, int) for col in data_df.columns)
all_int_columns(df) == \A i \in 1..NCols(df) : df.columns[i].t = "num"

\* data_df.iloc[0].astype(str).str.contains('Institute|Program|Quota|Rank',
\*                                          case=False).any()
header_like(row) ==
    \E i \in 1..Len(row) :
        \E kw \in {kw_institute, kw_program, kw_quota, kw_rank} :
            Contains(Lower(PyStr(row[i])), kw)

\* data_df.columns = data_df.iloc[0]; data_df = data_df[1:]; reset_index
promote_header(df) == DF(df.rows[1], Tail(df.rows))

\* A cascade that asks for the gender before the category.
rename_column_gender_first(col) ==
    LET col_lower == Lower(PyStr(col)) IN
    IF Contains(col_lower, kw_institute) THEN StrV(S_Institute)
    ELSE IF Contains(col_lower, kw_program) THEN StrV(S_Program)
    ELSE IF Contains(col_lower, kw_quota) THEN StrV(S_Quota)
    ELSE IF Contains(col_lower, kw_gender) THEN StrV(S_Gender)
    ELSE IF Contains(col_lower, kw_seat_type) \/ Contains(col_lower, kw_category)
         THEN StrV(S_Category)
    ELSE IF Contains(col_lower, kw_opening) /\ Contains(col_lower, kw_rank)
         THEN StrV(S_OpeningRank)
    ELSE IF Contains(col_lower, kw_closing) /\ Contains(col_lower, kw_rank)
         THEN StrV(S_ClosingRank)
    ELSE col

\* The if/elif cascade that fills rename_map, for one column label.
rename_column(col) ==
    LET col_lower == Lower(PyStr(col)) IN
    IF Contains(col_lower, kw_institute) THEN StrV(S_Institute)
    ELSE IF Contains(col_lower, kw_program) THEN StrV(S_Program)
    ELSE IF Contains(col_lower, kw_quota) THEN StrV(S_Quota)
    ELSE IF Contains(col_lower, kw_seat_type) \/ Contains(col_lower, kw_category)
         THEN StrV(S_Category)
    ELSE IF Contains(col_lower, kw_gender) THEN StrV(S_Gender)
    ELSE IF Contains(col_lower, kw_opening) /\ Contains(col_lower, kw_rank)
         THEN StrV(S_OpeningRank)
    ELSE IF Contains(col_lower, kw_closing) /\ Contains(col_lower, kw_rank)
         THEN StrV(S_ClosingRank)
    ELSE col

\* data_df.rename(columns=rename_map, inplace=True)
rename_columns(df) ==
    DF([i \in 1..NCols(df) |-> rename_column(df.columns[i])], df.rows)

\* A naming that gives the two rank columns in the other order.
normalize_columns_ranks_swapped(df) ==
    IF all_int_columns(df)
    THEN IF NCols(df) = 7
         THEN DF(<<StrV(S_Institute), StrV(S_Program), StrV(S_Quota),
                   StrV(S_Category), StrV(S_Gender), StrV(S_ClosingRank),
                   StrV(S_OpeningRank)>>, df.rows)
         ELSE df
    ELSE IF NCols(df) = 7
         THEN rename_columns(IF header_like(df.rows[1]) THEN promote_header(df)
                             ELSE df)
         ELSE df

\* Lines 126-158: the column naming of the selected table.
normalize_columns(df) ==
    IF all_int_columns(df)
    THEN IF NCols(df) = 7 THEN DF(CanonicalColumns, df.rows) ELSE df
    ELSE IF NCols(df) = 7
         THEN rename_columns(IF header_like(df.rows[1]) THEN promote_header(df)
                             ELSE df)
         ELSE df

\* name in data_df.columns
has_column(df, name) == \E i \in 1..NCols(df) : df.columns[i] = StrV(name)

column_positions(df, name) == {i \in 1..NCols(df) : df.columns[i] = StrV(name)}

\* data_df[name] = data_df[name].apply(clean_rank), for a label held by one column
apply_clean_rank(df, name) ==
    LET j == CHOOSE i \in column_positions(df, name) : TRUE IN
    DF(df.columns,
       [r \in 1..Len(df.rows) |->
           [i \in 1..NCols(df) |->
               IF i = j THEN clean_rank(df.rows[r][i]) ELSE df.rows[r][i]]])

\* Lines 185-188. A label held by several columns selects a frame, whose
\* apply hands clean_rank a whole column: `if pd.isna(...)` raises ValueError.
clean_rank_columns(df) ==
    LET step(o, name) ==
            IF o.exc # "" \/ ~has_column(o.df, name) THEN o
            ELSE IF Cardinality(column_positions(o.df, name)) > 1
                 THEN Raise("ValueError", o.log)
                 ELSE Ok(apply_clean_rank(o.df, name), o.log)
    IN step(step(Ok(df, <<>>), S_OpeningRank), S_ClosingRank)

is_na(v) == v.t = "nan"

\* A cleaning step that drops no row.
drop_missing_ranks_never(df) == Ok(df, <<>>)

\* Lines 191-192: dropna(subset=['ClosingRank', 'OpeningRank'], how='any');
\* a subset label that is no column raises KeyError.
drop_missing_ranks(df) ==
    IF ~has_column(df, S_ClosingRank) THEN Ok(df, <<>>)
    ELSE IF ~has_column(df, S_OpeningRank) THEN Raise("KeyError", <<>>)
    ELSE LET c == CHOOSE i \in column_positions(df, S_ClosingRank) : TRUE
             o == CHOOSE i \in column_positions(df, S_OpeningRank) : TRUE
         IN Ok(DF(df.columns,
                  SelectSeq(df.rows, LAMBDA row : ~is_na(row[c]) /\ ~is_na(row[o]))),
               <<>>)

MsgNoTables == "No tables found in the POST response."
MsgNoDataTable == "Could not identify the main data table from the parsed HTML."
MsgEmptyTable == "Parsed table is empty."
MsgCleaned == "DataFrame cleaned."

\* Lines 84-196: everything after the POST response has arrived with a 2xx
\* status, up to the return statement.
parse_post_response(body) ==
    LET parsed == read_html(body) IN
    IF parsed.exc # "" THEN Selected(Raise(parsed.exc, <<>>), 0)
    ELSE IF Len(parsed.dfs) = 0 THEN Selected(Ok(EmptyDF, <<MsgNoTables>>), 0)
    ELSE LET k == select_table(parsed.dfs, 1) IN
         IF k = 0 THEN Selected(Ok(EmptyDF, <<MsgNoDataTable>>), 0)
         ELSE LET data_df == parsed.dfs[k] IN
              IF IsEmptyDF(data_df) THEN Selected(Ok(EmptyDF, <<MsgEmptyTable>>), k)
              ELSE LET cleaned == clean_rank_columns(normalize_columns(data_df)) IN
                   IF cleaned.exc # "" THEN Selected(Raise(cleaned.exc, <<>>), k)
                   ELSE LET dropped == drop_missing_ranks(cleaned.df) IN
                        IF dropped.exc # "" THEN Selected(Raise(dropped.exc, <<>>), k)
                        ELSE Selected(Ok(dropped.df, <<MsgCleaned>>), k)

\* ------------------------------------------------------------ option chain
NullV == [t |-> "null", s |-> <<>>, n |-> 0]

\* bool(x) of a JSON scalar
truthy(v) ==
    CASE v.t = "num" -> v.n # 0
      [] v.t = "str" -> v.s # <<>>
      [] OTHER -> FALSE

MonthAbbr ==
    << <<"j","a","n">>, <<"f","e","b">>, <<"m","a","r">>, <<"a","p","r">>,
       <<"m","a","y">>, <<"j","u","n">>, <<"j","u","l">>, <<"a","u","g">>,
       <<"s","e","p">>, <<"o","c","t">>, <<"n","o","v">>, <<"d","e","c">> >>

IsLeap(y) == (y % 4 = 0 /\ y % 100 # 0) \/ y % 400 = 0

DaysIn(m, y) ==
    IF m = 2 THEN (IF IsLeap(y) THEN 29 ELSE 28)
    ELSE IF m \in {4, 6, 9, 11} THEN 30 ELSE 31

AllDigits(s) == s # <<>> /\ \A i \in 1..Len(s) : IsDigit(s[i])

\* datetime.strptime(d, '%d-%b-%Y'): day of one or two digits, month
\* abbreviation in any case, year of four digits, and a date that exists.
\* ok = FALSE stands for the ValueError; key orders the dates.
strptime(d) ==
    LET dash == {i \in 1..Len(d) : d[i] = "-"} IN
    IF Cardinality(dash) # 2 THEN [ok |-> FALSE, key |-> 0]
    ELSE LET p == CHOOSE i \in dash : \A j \in dash : i <= j
             q == CHOOSE i \in dash : \A j \in dash : i >= j
             dd == SubSeq(d, 1, p - 1)
             mm == Lower(SubSeq(d, p + 1, q - 1))
             yy == SubSeq(d, q + 1, Len(d))
         IN IF /\ AllDigits(dd) /\ Len(dd) <= 2
               /\ AllDigits(yy) /\ Len(yy) = 4
               /\ \E m \in 1..12 : MonthAbbr[m] = mm
            THEN LET m == CHOOSE k \in 1..12 : MonthAbbr[k] = mm
                     day == DigitsToInt(dd)
                     y == DigitsToInt(yy)
                 IN IF day >= 1 /\ day <= DaysIn(m, y) /\ y >= 1
                    THEN [ok |-> TRUE, key |-> y * 10000 + m * 100 + day]
                    ELSE [ok |-> FALSE, key |-> 0]
            ELSE [ok |-> FALSE, key |-> 0]

\* The expiry strings in the set's own order: any arrangement of them.
sorted_expiries_unsorted(S) ==
    {q \in [1..Cardinality(S) -> S] :
        \A i, j \in 1..Cardinality(S) : i # j => q[i] # q[j]}

\* sorted(list(expiry_dates_set), key=strptime): the set's iteration order is
\* arbitrary and the sort is stable, so strings of equal date come out in any
\* order.
sorted_expiries(S) ==
    {q \in [1..Cardinality(S) -> S] :
        /\ \A i, j \in 1..Cardinality(S) : i # j => q[i] # q[j]
        /\ \A i, j \in 1..Cardinality(S) :
              i < j => strptime(q[i]).key <= strptime(q[j]).key}

\* A dict: a function from its keys. {} and null are both the empty one.
EmptyDict == <<>> @@ <<>>

has_key(d, k) == k \in DOMAIN d

\* `'PE' in record and record['PE'] and 'underlyingValue' in record['PE']`
side_has_underlying(record, side) ==
    /\ has_key(record, side)
    /\ DOMAIN record[side] # {}
    /\ has_key(record[side], "underlyingValue")

\* Lines 75-78 for one record: the spot price after the record is scanned.
spot_after(record, spot_price) ==
    IF side_has_underlying(record, "PE") THEN record["PE"]["underlyingValue"]
    ELSE IF side_has_underlying(record, "CE") THEN record["CE"]["underlyingValue"]
    ELSE spot_price

\* Lines 73-78: the first loop over data['records']['data'], from record i.
RECURSIVE scan_spot(_, _, _)
scan_spot(recs, i, spot_price) ==
    IF i > Len(recs) THEN spot_price
    ELSE scan_spot(recs, i + 1, spot_after(recs[i], spot_price))

\* expiryDate of a record: the str held under the key
expiry_of(record) == record["expiryDate"].s

\* dict.update(common_data) on a side payload
tagged(side, record) == ("expiryDate" :> StrV(expiry_of(record))) @@ side

\* Lines 88-99: the flat list of one side's payloads, in record order.
RECURSIVE flatten(_, _, _)
flatten(recs, i, side) ==
    IF i > Len(recs) THEN <<>>
    ELSE (IF has_key(recs[i], side) /\ DOMAIN recs[i][side] # {}
          THEN <<tagged(recs[i][side], recs[i])>> ELSE <<>>)
         \o flatten(recs, i + 1, side)

\* The value returned on failure: (None, [], pd.DataFrame(), pd.DataFrame())
NseFailure == [spot_price |-> NullV, expiry_dates_list |-> <<>>,
               calls_df |-> <<>>, puts_df |-> <<>>]

\* A no-records return that marks itself with a spot price of 0.
no_records_return_marked ==
    [spot_price |-> [t |-> "num", s |-> <<>>, n |-> 0], expiry_dates_list |-> <<>>,
     calls_df |-> <<>>, puts_df |-> <<>>]

\* Line 65: return None, [], pd.DataFrame(), pd.DataFrame()
no_records_return == NseFailure

NseOk(v) == [exc |-> "", value |-> v, log |-> <<>>]
NseRaise(e) == [exc |-> e, value |-> NseFailure, log |-> <<>>]

MsgNoRecords == "No records found in NSE API response"

\* Lines 63-108 on the decoded document `data`: the outcomes the extraction
\* can have (several only when the expiry sort has ties).
\*   data.shape: "null" (falsy value), "number" (a truthy scalar), "dict"
\*   data.d: the top-level dict
extract_option_chain(data) ==
    IF data.shape = "null" THEN {[NseOk(no_records_return) EXCEPT !.log = <<MsgNoRecords>>]}
    ELSE IF data.shape = "number" THEN {NseRaise("TypeError")}
    ELSE IF ~has_key(data.d, "records") \/ DOMAIN data.d["records"] = {}
         THEN {[NseOk(no_records_return) EXCEPT !.log = <<MsgNoRecords>>]}
    ELSE LET records == data.d["records"]
             has_data == has_key(records, "data") /\ Len(records["data"]) > 0
             recs == IF has_data THEN records["data"] ELSE <<>>
         IN IF \E i \in 1..Len(recs) : ~has_key(recs[i], "expiryDate")
            THEN {NseRaise("KeyError")}
            ELSE LET scanned == scan_spot(recs, 1, NullV)
                     need_fallback == has_data /\ ~truthy(scanned)
                 IN IF need_fallback /\ ~has_key(records, "underlyingValue")
                    THEN {NseRaise("KeyError")}
                    ELSE LET spot_price ==
                                 IF need_fallback /\ truthy(records["underlyingValue"])
                                 THEN records["underlyingValue"] ELSE scanned
                             expiry_dates_set ==
                                 {expiry_of(recs[i]) : i \in 1..Len(recs)}
                         IN IF \E e \in expiry_dates_set : ~strptime(e).ok
                            THEN {NseRaise("ValueError")}
                            ELSE {NseOk([spot_price |-> spot_price,
                                         expiry_dates_list |-> q,
                                         calls_df |-> flatten(recs, 1, "CE"),
                                         puts_df |-> flatten(recs, 1, "PE")]) :
                                     q \in sorted_expiries(expiry_dates_set)}

\* ------------------------------------------------------------ exceptions
\* Exception classes by name, and the classes the except clauses name.
ExcTimeout == {"Timeout"}
ExcRequestException ==
    {"Timeout", "ConnectionError", "HTTPError", "RequestsJSONDecodeError"}
ExcJSONDecodeError == {"RequestsJSONDecodeError", "JSONDecodeError"}
ExcException ==
    ExcRequestException \cup ExcJSONDecodeError
        \cup {"TypeError", "KeyError", "ValueError"}

MsgJosaaTimeout == "Timeout while trying to reach JoSAA website"
MsgJosaaRequest == "Request to JoSAA failed"
MsgJosaaUnexpected == "An unexpected error occurred while fetching JoSAA data"

\* A handler chain that stops at RequestException (no catch-all clause).
josaa_handler_requests_only(e) ==
    IF e \in ExcTimeout THEN MsgJosaaTimeout
    ELSE IF e \in ExcRequestException THEN MsgJosaaRequest
    ELSE ""

\* The except clauses of fetch_josaa_orcr_data, in order: the message the
\* matching clause prints, "" when no clause matches and e propagates.
josaa_handler(e) ==
    IF e \in ExcTimeout THEN MsgJosaaTimeout
    ELSE IF e \in ExcRequestException THEN MsgJosaaRequest
    ELSE IF e \in ExcException THEN MsgJosaaUnexpected
    ELSE ""

MsgNseRequest == "Request to NSE failed"
MsgNseDecode == "Failed to decode JSON from NSE"
MsgNseUnexpected == "An unexpected error occurred while fetching NSE data"
MsgNseBootFailed == "Initial NSE page visit failed"

\* The outer except clauses of fetch_nse_option_data, in order.
nse_handler(e) ==
    IF e \in ExcRequestException THEN MsgNseRequest
    ELSE IF e \in ExcJSONDecodeError THEN MsgNseDecode
    ELSE IF e \in ExcException THEN MsgNseUnexpected
    ELSE ""

\* A bootstrap whose failure is not caught where it happens.
boot_tolerated_never(e) == FALSE

\* The inner except clause around the bootstrap GET.
boot_tolerated(e) == e \in ExcRequestException

\* What the transport raises by itself for an outcome ("" for a response).
transport_exception(outcome) ==
    CASE outcome = "timeout" -> "Timeout"
      [] outcome = "conn_error" -> "ConnectionError"
      [] OTHER -> ""

\* response.raise_for_status()
raise_for_status(outcome) == IF outcome = "http_error" THEN "HTTPError" ELSE ""

\* ------------------------------------------------------------ requests
JOSAA_ORCR_URL ==
    "https://josaa.admissions.nic.in/applicant/SeatAllotmentResult/CurrentORCR.aspx"

\* initial_page_url
initial_page_url(symbol) ==
    IF symbol = "NIFTY"
    THEN "https://www.nseindia.com/market-data/live-equity-market"
    ELSE "https://www.nseindia.com/get-quotes/derivatives?symbol=" \o symbol

\* API_URL_TEMPLATE.format(symbol=...)
api_url(symbol) ==
    "https://www.nseindia.com/api/option-chain-indices?symbol=" \o symbol

NoPayload == [k \in {} |-> ""]

Request(method, url, referer, cookies, data, timeout) ==
    [method |-> method, url |-> url, referer |-> referer, cookies |-> cookies,
     data |-> data, timeout |-> timeout]

TokenNames == {"__VIEWSTATE", "__VIEWSTATEGENERATOR", "__EVENTVALIDATION"}

\* soup.find('input', {'name': name})['value']: a missing input makes
\* find return None (TypeError on the subscript), an input without the
\* attribute raises KeyError.
find_value(page, name) ==
    IF ~page[name].present THEN [exc |-> "TypeError", value |-> ""]
    ELSE IF ~page[name].has_value THEN [exc |-> "KeyError", value |-> ""]
    ELSE [exc |-> "", value |-> page[name].value]

NoTokens == [exc |-> "", viewstate |-> "", viewstategenerator |-> "",
             eventvalidation |-> ""]

\* Token extraction that reads a missing field as the empty string.
extract_tokens_lenient(page) ==
    [exc |-> "",
     viewstate |-> find_value(page, "__VIEWSTATE").value,
     viewstategenerator |-> find_value(page, "__VIEWSTATEGENERATOR").value,
     eventvalidation |-> find_value(page, "__EVENTVALIDATION").value]

\* Lines 41-43: the three lookups in order; the first that raises ends them.
extract_tokens(page) ==
    LET vs == find_value(page, "__VIEWSTATE")
        vsg == find_value(page, "__VIEWSTATEGENERATOR")
        ev == find_value(page, "__EVENTVALIDATION")
    IN IF vs.exc # "" THEN [NoTokens EXCEPT !.exc = vs.exc]
       ELSE IF vsg.exc # "" THEN [NoTokens EXCEPT !.exc = vsg.exc]
       ELSE IF ev.exc # "" THEN [NoTokens EXCEPT !.exc = ev.exc]
       ELSE [exc |-> "", viewstate |-> vs.value,
             viewstategenerator |-> vsg.value, eventvalidation |-> ev.value]

\* A payload that sends the validation token under the generator's key too.
build_payload_mixed(tok, sel) ==
    ("__EVENTTARGET" :> "") @@ ("__EVENTARGUMENT" :> "") @@ ("__LASTFOCUS" :> "")
    @@ ("__VIEWSTATE" :> tok.viewstate)
    @@ ("__VIEWSTATEGENERATOR" :> tok.eventvalidation)
    @@ ("__EVENTVALIDATION" :> tok.eventvalidation)
    @@ ("ctl00$ContentPlaceHolder1$ddlroundno" :> ToString(sel.round_no))
    @@ ("ctl00$ContentPlaceHolder1$ddlInstype" :> sel.institute_type)
    @@ ("ctl00$ContentPlaceHolder1$ddlInstitute" :> sel.institute_name)
    @@ ("ctl00$ContentPlaceHolder1$ddlBranch" :> sel.program_name)
    @@ ("ctl00$ContentPlaceHolder1$ddlSeatType" :> sel.seat_category)
    @@ ("ctl00$ContentPlaceHolder1$btnSubmit" :> "Submit")

\* Lines 59-72: the POST payload.
build_payload(tok, sel) ==
    ("__EVENTTARGET" :> "") @@ ("__EVENTARGUMENT" :> "") @@ ("__LASTFOCUS" :> "")
    @@ ("__VIEWSTATE" :> tok.viewstate)
    @@ ("__VIEWSTATEGENERATOR" :> tok.viewstategenerator)
    @@ ("__EVENTVALIDATION" :> tok.eventvalidation)
    @@ ("ctl00$ContentPlaceHolder1$ddlroundno" :> ToString(sel.round_no))
    @@ ("ctl00$ContentPlaceHolder1$ddlInstype" :> sel.institute_type)
    @@ ("ctl00$ContentPlaceHolder1$ddlInstitute" :> sel.institute_name)
    @@ ("ctl00$ContentPlaceHolder1$ddlBranch" :> sel.program_name)
    @@ ("ctl00$ContentPlaceHolder1$ddlSeatType" :> sel.seat_category)
    @@ ("ctl00$ContentPlaceHolder1$btnSubmit" :> "Submit")

\* One session object for every call (a module-level requests.Session()).
new_session_shared(c) == 1

\* requests.Session() inside the function: an object of the call's own.
new_session(c) == c

\* Where a call goes when an exception reaches its outer handlers: back to
\* the request that failed.
after_exception_retry(step) == step

\* Where a call goes when an exception reaches its outer handlers: the
\* clauses only print, and the function returns its failure value.
after_exception(step) == "done"

\* ------------------------------------------------------------ state
VARIABLES
    pc,        \* where each call stands
    kind,      \* "josaa" | "nse" ("none" before the call)
    args,      \* the call's parameters
    session,   \* the requests.Session the call uses (0: none yet)
    jar,       \* per session, the cookies it holds
    reqs,      \* per call, the requests it has issued, in order
    resp1,     \* what came back for the call's first request
    resp2,     \* what came back for the call's second request
    tokens,    \* viewstate, viewstategenerator, eventvalidation of the call
    data_df,   \* position of the table the call selected (0: None)
    result,    \* the value the call returned
    raised,    \* the exception that left the call ("" for none)
    log,       \* what the call printed
    fn,        \* the function applied on its own ("" before it is)
    input,     \* what that function is applied to
    output,    \* what it returned
    session_state,  \* st.session_state of the browser session
    cache_data,     \* what st.cache_data holds, per cached function
    rerun           \* what the last run of a page script did

\* The state of the calls, that of a function applied on its own, and that
\* of the Streamlit pages.
call_vars == <<pc, kind, args, session, jar, reqs, resp1, resp2, tokens, data_df,
               result, raised, log>>
fn_vars == <<fn, input, output>>
page_vars == <<session_state, cache_data, rerun>>
vars == <<call_vars, fn_vars, page_vars>>

NoArgs == [round_no |-> 0, institute_type |-> "", institute_name |-> "",
           program_name |-> "", seat_category |-> "", symbol |-> ""]

NoResult == [none |-> TRUE]

AbsentField == [present |-> FALSE, has_value |-> FALSE, value |-> ""]
NoPage ==
    ("__VIEWSTATE" :> AbsentField)
    @@ ("__VIEWSTATEGENERATOR" :> AbsentField)
    @@ ("__EVENTVALIDATION" :> AbsentField)

Resp1(outcome, cookie, page) ==
    [outcome |-> outcome, cookie |-> cookie, page |-> page]
Resp2(outcome, body, decode_exc) ==
    [outcome |-> outcome, body |-> body, decode_exc |-> decode_exc]

NoResp1 == Resp1("none", FALSE, NoPage)
NoResp2 == Resp2("none", <<>>, "")

\* The cookie a server response sets, marked with the call whose request
\* it answers.
Cookie(c) == [issued_to |-> c]

\* No call has started.
InitCalls ==
    /\ pc = [c \in Calls |-> "idle"]
    /\ kind = [c \in Calls |-> "none"]
    /\ args = [c \in Calls |-> NoArgs]
    /\ session = [c \in Calls |-> 0]
    /\ jar = [s \in Calls |-> {}]
    /\ reqs = [c \in Calls |-> <<>>]
    /\ resp1 = [c \in Calls |-> NoResp1]
    /\ resp2 = [c \in Calls |-> NoResp2]
    /\ tokens = [c \in Calls |-> NoTokens]
    /\ data_df = [c \in Calls |-> 0]
    /\ result = [c \in Calls |-> NoResult]
    /\ raised = [c \in Calls |-> ""]
    /\ log = [c \in Calls |-> <<>>]

\* A server that has run no page script yet.
\* `prior` and `last_fetch` tell how the latest fetch for the page's subject
\* had ended before the run and after it ("none", "ok", "failed").
NoRerun == [page |-> "", pressed |-> FALSE, fetched |-> FALSE, shown |-> "",
            prior |-> "none", last_fetch |-> EmptyDict]
InitPages == session_state = EmptyDict /\ cache_data = EmptyDict /\ rerun = NoRerun

Init == InitCalls /\ InitPages /\ fn = "" /\ input = NoResult /\ output = NoResult

\* ------------------------------------------------------------ environment
\* The remote side: what the selections, pages, tables and JSON documents
\* of a run are drawn from.
\* Longest document, in tables, of the wide environment.
MaxTables == 3

Selection(r, it, inst, prog, seat) ==
    [round_no |-> r, institute_type |-> it, institute_name |-> inst,
     program_name |-> prog, seat_category |-> seat, symbol |-> ""]

\* The defaults of the signature, and a selection with every field set.
DefaultSelection == Selection(4, "ALL", "ALL", "ALL", "ALL")
Selections == {DefaultSelection, Selection(2, "101", "I7", "B4", "OPEN")}
Symbols == {"NIFTY", "BANKNIFTY"}

Field(v) == [present |-> TRUE, has_value |-> TRUE, value |-> v]
NoValueField == [present |-> TRUE, has_value |-> FALSE, value |-> ""]

\* The form page served to call c: the server issues tokens per response.
FullPage(c) ==
    ("__VIEWSTATE" :> Field("vs#" \o ToString(c)))
    @@ ("__VIEWSTATEGENERATOR" :> Field("vsg#" \o ToString(c)))
    @@ ("__EVENTVALIDATION" :> Field("ev#" \o ToString(c)))

\* Pages a GET may bring: the form, the form with an empty token, and pages
\* on which a hidden field is missing or carries no value attribute.
SmallPages(c) == {FullPage(c), [FullPage(c) EXCEPT !["__EVENTVALIDATION"] = AbsentField]}
WidePages(c) ==
    SmallPages(c) \cup
    {[FullPage(c) EXCEPT !["__EVENTVALIDATION"] = Field("")],
     [FullPage(c) EXCEPT !["__VIEWSTATEGENERATOR"] = NoValueField],
     [FullPage(c) EXCEPT !["__VIEWSTATE"] = AbsentField]}

c_inst == StrV(<<"I","I","T","B">>)
c_prog == StrV(<<"C","S","E">>)
c_quota == StrV(<<"A","I">>)
c_cat == StrV(<<"O","P","E","N">>)
c_gender == StrV(<<"G","N">>)
c_12 == StrV(<<"1","2">>)
c_34 == StrV(<<"3","4">>)
c_98P == StrV(<<"9","8","P">>)
c_45PwD == StrV(<<"4","5"," ","(","P","w","D",")">>)
c_abc == StrV(<<"a","b","c">>)
c_blank == StrV(<<" ">>)

\* The header cells of the source's result table.
HeaderRow ==
    <<StrV(<<"I","n","s","t","i","t","u","t","e">>),
      StrV(<<"A","c","a","d","e","m","i","c"," ","P","r","o","g","r","a","m"," ","N","a","m","e">>),
      StrV(<<"Q","u","o","t","a">>),
      StrV(<<"S","e","a","t"," ","T","y","p","e">>),
      StrV(<<"G","e","n","d","e","r">>),
      StrV(<<"O","p","e","n","i","n","g"," ","R","a","n","k">>),
      StrV(<<"C","l","o","s","i","n","g"," ","R","a","n","k">>)>>

\* Labels pandas gives a table without header cells: 0, 1, 2, ...
Positional(n) ==
    SubSeq(<<NumV(0), NumV(1), NumV(2), NumV(3), NumV(4), NumV(5), NumV(6),
             NumV(7)>>, 1, n)

Row(opening, closing) == <<c_inst, c_prog, c_quota, c_cat, c_gender, opening, closing>>

\* Tables read_html can return. One without header cells has at least one
\* row (read_html skips a table without any cell).
T_layout2 == DF(Positional(2), << <<c_inst, c_prog>> >>)
T_layout5 == DF(Positional(5), << <<c_inst, c_prog, c_quota, c_cat, c_gender>> >>)
T_wide6 == DF(Positional(6), << <<c_inst, c_prog, c_quota, c_cat, c_gender, c_12>> >>)
T_data7 == DF(Positional(7), <<Row(c_12, c_34), Row(c_98P, c_45PwD), Row(c_abc, c_34)>>)
T_data7_hdr == DF(Positional(7), <<HeaderRow, Row(c_12, c_34), Row(NaN, NumV(77))>>)
T_named7 == DF(HeaderRow, <<Row(c_12, c_98P), Row(c_blank, c_34)>>)
T_named7_empty == DF(HeaderRow, <<>>)
T_named7_partial ==
    DF([HeaderRow EXCEPT ![6] = StrV(<<"O","p","e","n","i","n","g">>)], <<Row(c_12, c_34)>>)
\* A table whose header cells are a title and whose first row of cells
\* carries the column headings.
c_title == StrV(<<"R","o","u","n","d"," ","4">>)
T_titled7_hdr ==
    DF(<<c_title, c_title, c_title, c_title, c_title, c_title, c_title>>,
       <<HeaderRow, Row(c_12, c_34), Row(c_98P, c_45PwD)>>)
\* Headings of which one names two things and one names none.
T_named7_remarks ==
    DF([HeaderRow EXCEPT
           ![4] = StrV(<<"C","a","t","e","g","o","r","y"," ","/"," ","G","e","n","d","e","r">>),
           ![5] = StrV(<<"R","e","m","a","r","k","s">>)],
       <<Row(c_12, c_34)>>)
T_wide8 == DF(Positional(8), << <<c_inst, c_prog, c_quota, c_cat, c_gender, c_12, c_34, c_abc>> >>)

Tables == {T_layout2, T_layout5, T_wide6, T_data7, T_data7_hdr, T_named7,
           T_named7_empty, T_named7_partial, T_wide8}

\* A 6-column table whose header cells are the short names, the opening rank
\* not among them.
T_named6_closing ==
    DF(<<StrV(S_Institute), StrV(S_Program), StrV(S_Quota), StrV(S_Category),
         StrV(S_Gender), StrV(S_ClosingRank)>>,
       << <<c_inst, c_prog, c_quota, c_cat, c_gender, c_34>> >>)

\* Further tables, served alone or after a layout table.
MoreTables == {T_titled7_hdr, T_named7_remarks, T_named6_closing}

\* Documents of at most n tables.
Documents(n) == UNION {[1..k -> Tables] : k \in 0..n}

SmallBodies == {<<>>, <<T_layout2>>, <<T_layout2, T_data7>>, <<T_named7_empty>>}
WideBodies ==
    Documents(MaxTables)
    \cup {<<T>> : T \in MoreTables}
    \cup {<<T_layout5, T>> : T \in MoreTables}

e_25Jan == StrV(<<"2","5","-","J","a","n","-","2","0","2","5">>)
e_02Feb == StrV(<<"0","2","-","F","e","b","-","2","0","2","5">>)
e_01Dec == StrV(<<"0","1","-","D","e","c","-","2","0","2","5">>)
e_2Feb == StrV(<<"2","-","F","e","b","-","2","0","2","5">>)
e_bad == StrV(<<"2","0","2","5","-","0","2","-","0","2">>)

\* One side payload of a per-strike record.
SidePayload(strike, oi, e) ==
    ("strikePrice" :> NumV(strike)) @@ ("openInterest" :> NumV(oi))
    @@ ("expiryDate" :> e)
WithUnderlying(side, v) == ("underlyingValue" :> v) @@ side

\* A per-strike record, with the sides it carries.
StrikeRecord(strike, e) == ("strikePrice" :> NumV(strike)) @@ ("expiryDate" :> e)
WithSide(record, name, side) == (name :> side) @@ record

JsonDoc(shape, d) == [shape |-> shape, d |-> d]
NonJson == JsonDoc("nonjson", EmptyDict)
RecordsDoc(records) == JsonDoc("dict", "records" :> records)

Rec_both ==
    WithSide(WithSide(StrikeRecord(100, e_02Feb), "CE",
                      WithUnderlying(SidePayload(100, 5, e_02Feb), NumV(101))),
             "PE", WithUnderlying(SidePayload(100, 7, e_02Feb), NumV(102)))
Rec_call_only ==
    WithSide(StrikeRecord(110, e_25Jan), "CE",
             WithUnderlying(SidePayload(110, 3, e_25Jan), NumV(103)))
Rec_put_plain == WithSide(StrikeRecord(120, e_01Dec), "PE", SidePayload(120, 9, e_01Dec))
Rec_empty_sides == WithSide(WithSide(StrikeRecord(130, e_2Feb), "CE", EmptyDict), "PE", EmptyDict)
Rec_no_expiry == "strikePrice" :> NumV(140)
Rec_bad_expiry == WithSide(StrikeRecord(150, e_bad), "CE", SidePayload(150, 1, e_bad))

Doc_null == JsonDoc("null", EmptyDict)
Doc_number == JsonDoc("number", EmptyDict)
Doc_no_records == JsonDoc("dict", "timestamp" :> NumV(1))
Doc_empty_records == RecordsDoc(EmptyDict)
Doc_no_data == RecordsDoc("underlyingValue" :> NumV(100))
Doc_chain ==
    RecordsDoc(("underlyingValue" :> NumV(100)) @@ ("data" :> <<Rec_both, Rec_call_only>>))
Doc_bare ==
    RecordsDoc(("underlyingValue" :> NullV) @@ ("data" :> <<Rec_put_plain, Rec_empty_sides>>))
Doc_no_top == RecordsDoc("data" :> <<Rec_put_plain>>)
Doc_no_expiry == RecordsDoc(("underlyingValue" :> NumV(100)) @@ ("data" :> <<Rec_both, Rec_no_expiry>>))
Doc_bad_expiry == RecordsDoc(("underlyingValue" :> NumV(100)) @@ ("data" :> <<Rec_bad_expiry>>))
Doc_ties ==
    RecordsDoc(("underlyingValue" :> NumV(100))
               @@ ("data" :> <<Rec_both, Rec_empty_sides, Rec_put_plain, Rec_call_only>>))

\* Strikes that share an expiry, listed out of date order.
Rec_put_feb == WithSide(StrikeRecord(120, e_02Feb), "PE", SidePayload(120, 4, e_02Feb))
Doc_repeat ==
    RecordsDoc(("underlyingValue" :> NumV(100))
               @@ ("data" :> <<Rec_put_plain, Rec_both, Rec_call_only, Rec_put_feb>>))

\* A put side whose underlying value is null beside a call side with one.
Rec_put_null ==
    WithSide(WithSide(StrikeRecord(100, e_02Feb), "CE",
                      WithUnderlying(SidePayload(100, 5, e_02Feb), NumV(105))),
             "PE", WithUnderlying(SidePayload(100, 7, e_02Feb), NullV))
Doc_put_null ==
    RecordsDoc(("underlyingValue" :> NumV(100)) @@ ("data" :> <<Rec_put_null>>))

SmallDocs == {Doc_no_records, Doc_no_data, Doc_chain}
WideDocs == {Doc_null, Doc_number, Doc_no_records, Doc_empty_records, Doc_no_data,
             Doc_chain, Doc_bare, Doc_no_top, Doc_no_expiry, Doc_bad_expiry, Doc_ties,
             Doc_repeat, Doc_put_null}

\* What response.json() raises on a body that is not JSON: requests from 2.27
\* on raises its own JSONDecodeError (a RequestException too), older ones
\* the json module's.
DecodeErrors == {"RequestsJSONDecodeError", "JSONDecodeError"}

TransportFailures == {"timeout", "conn_error"}

\* A request that does not come back with a 2xx status.
RequestFailures == {"timeout", "conn_error", "http_error"}

FailedGets == {Resp1(o, FALSE, NoPage) : o \in RequestFailures}

GetResponses(c, wide) ==
    FailedGets
    \cup {Resp1("ok", k, p) : k \in BOOLEAN,
                              p \in IF wide THEN WidePages(c) ELSE SmallPages(c)}

FailedPosts == {Resp2(o, <<>>, "") : o \in RequestFailures}

PostResponses(wide) ==
    FailedPosts
    \cup {Resp2("ok", b, "") : b \in IF wide THEN WideBodies ELSE SmallBodies}

BootStatuses == {"ok", "http_error"}

BootResponses ==
    {Resp1(o, FALSE, NoPage) : o \in TransportFailures}
    \cup {Resp1(o, k, NoPage) : o \in BootStatuses, k \in BOOLEAN}

FailedApiGets == {Resp2(o, NonJson, "") : o \in RequestFailures}

UndecodableApiGets == {Resp2("ok", NonJson, e) : e \in DecodeErrors}

ApiResponses(wide) ==
    FailedApiGets \cup UndecodableApiGets
    \cup {Resp2("ok", d, "") : d \in IF wide THEN WideDocs ELSE SmallDocs}

\* What a run calls the two functions with.
JosaaSelections(wide) == IF wide THEN Selections ELSE {DefaultSelection}
NseSymbols(wide) == IF wide THEN Symbols ELSE {"NIFTY"}

\* ------------------------------------------------------------ JoSAA call
\* Lines 17-32: the call starts; s = requests.Session().
StartJosaa(c, wide) ==
    /\ pc[c] = "idle"
    /\ \E sel \in JosaaSelections(wide) :
          args' = [args EXCEPT ![c] = [sel EXCEPT !.symbol = ""]]
    /\ kind' = [kind EXCEPT ![c] = "josaa"]
    /\ session' = [session EXCEPT ![c] = new_session(c)]
    /\ pc' = [pc EXCEPT ![c] = "get"]
    /\ UNCHANGED <<jar, reqs, resp1, resp2, tokens, data_df, result, raised, log>>
    /\ UNCHANGED <<fn_vars, page_vars>>

\* Lines 198-205: exception e reaches the handlers of call c at `step`.
JosaaExcept(c, e, step) ==
    IF josaa_handler(e) = ""
    THEN /\ raised' = [raised EXCEPT ![c] = e]
         /\ pc' = [pc EXCEPT ![c] = "done"]
         /\ UNCHANGED <<result, log>>
    ELSE /\ log' = [log EXCEPT ![c] = Append(@, josaa_handler(e))]
         /\ pc' = [pc EXCEPT ![c] = after_exception(step)]
         /\ result' = IF after_exception(step) = "done"
                      THEN [result EXCEPT ![c] = JosaaFailure] ELSE result
         /\ UNCHANGED raised

\* Line 37, first half: s.get(JOSAA_ORCR_URL, timeout=20) goes out.
JosaaGetSend(c) ==
    /\ pc[c] = "get"
    /\ reqs' = [reqs EXCEPT ![c] =
                  Append(@, Request("GET", JOSAA_ORCR_URL, JOSAA_ORCR_URL,
                                    jar[session[c]], NoPayload, 20))]
    /\ pc' = [pc EXCEPT ![c] = "getwait"]
    /\ UNCHANGED <<kind, args, session, jar, resp1, resp2, tokens, data_df,
                   result, raised, log>>
    /\ UNCHANGED <<fn_vars, page_vars>>

\* Lines 37-45: the GET returns r; raise_for_status; the three tokens.
JosaaGetRecv(c, wide) ==
    /\ pc[c] = "getwait"
    /\ \E r \in GetResponses(c, wide) :
          LET tok == extract_tokens(r.page)
              exc == IF transport_exception(r.outcome) # ""
                     THEN transport_exception(r.outcome)
                     ELSE IF raise_for_status(r.outcome) # ""
                     THEN raise_for_status(r.outcome)
                     ELSE tok.exc
          IN /\ resp1' = [resp1 EXCEPT ![c] = r]
             /\ jar' = IF r.cookie
                       THEN [jar EXCEPT ![session[c]] = @ \cup {Cookie(c)}]
                       ELSE jar
             /\ IF exc # ""
                THEN /\ JosaaExcept(c, exc, "get")
                     /\ UNCHANGED tokens
                ELSE /\ tokens' = [tokens EXCEPT ![c] = tok]
                     /\ pc' = [pc EXCEPT ![c] = "post"]
                     /\ log' = [log EXCEPT ![c] = Append(@, "VIEWSTATE captured")]
                     /\ UNCHANGED <<result, raised>>
    /\ UNCHANGED <<kind, args, session, reqs, resp2, data_df>>
    /\ UNCHANGED <<fn_vars, page_vars>>

\* Lines 59-76, first half: the payload is built and the POST goes out.
JosaaPostSend(c) ==
    /\ pc[c] = "post"
    /\ reqs' = [reqs EXCEPT ![c] =
                  Append(@, Request("POST", JOSAA_ORCR_URL, JOSAA_ORCR_URL,
                                    jar[session[c]],
                                    build_payload(tokens[c], args[c]), 60))]
    /\ pc' = [pc EXCEPT ![c] = "postwait"]
    /\ UNCHANGED <<kind, args, session, jar, resp1, resp2, tokens, data_df,
                   result, raised, log>>
    /\ UNCHANGED <<fn_vars, page_vars>>

\* Lines 76-196: the POST returns r; raise_for_status; parsing, selection,
\* naming, cleaning; return.
JosaaPostRecv(c, wide) ==
    /\ pc[c] = "postwait"
    /\ \E r \in PostResponses(wide) :
          LET exc == IF transport_exception(r.outcome) # ""
                     THEN transport_exception(r.outcome)
                     ELSE raise_for_status(r.outcome)
              o == parse_post_response(r.body)
          IN /\ resp2' = [resp2 EXCEPT ![c] = r]
             /\ IF exc # ""
                THEN /\ JosaaExcept(c, exc, "post")
                     /\ UNCHANGED data_df
                ELSE /\ data_df' = [data_df EXCEPT ![c] = o.data_df]
                     /\ IF o.exc # ""
                        THEN JosaaExcept(c, o.exc, "post")
                        ELSE /\ result' = [result EXCEPT ![c] = o.df]
                             /\ log' = [log EXCEPT ![c] = @ \o o.log]
                             /\ pc' = [pc EXCEPT ![c] = "done"]
                             /\ UNCHANGED raised
    /\ UNCHANGED <<kind, args, session, jar, reqs, resp1, tokens>>
    /\ UNCHANGED <<fn_vars, page_vars>>

\* ------------------------------------------------------------ NSE call
\* Lines 24-47: the call starts; session = requests.Session(), headers set.
StartNse(c, wide) ==
    /\ pc[c] = "idle"
    /\ \E sym \in NseSymbols(wide) : args' = [args EXCEPT ![c] = [NoArgs EXCEPT !.symbol = sym]]
    /\ kind' = [kind EXCEPT ![c] = "nse"]
    /\ session' = [session EXCEPT ![c] = new_session(c)]
    /\ pc' = [pc EXCEPT ![c] = "boot"]
    /\ UNCHANGED <<jar, reqs, resp1, resp2, tokens, data_df, result, raised, log>>
    /\ UNCHANGED <<fn_vars, page_vars>>

\* Lines 110-118: exception e reaches the outer handlers of call c at `step`.
NseExcept(c, e, step) ==
    IF nse_handler(e) = ""
    THEN /\ raised' = [raised EXCEPT ![c] = e]
         /\ pc' = [pc EXCEPT ![c] = "done"]
         /\ UNCHANGED <<result, log>>
    ELSE /\ log' = [log EXCEPT ![c] = Append(@, nse_handler(e))]
         /\ pc' = [pc EXCEPT ![c] = after_exception(step)]
         /\ result' = IF after_exception(step) = "done"
                      THEN [result EXCEPT ![c] = NseFailure] ELSE result
         /\ UNCHANGED raised

\* Line 51, first half: session.get(initial_page_url, timeout=10) goes out.
NseBootSend(c) ==
    /\ pc[c] = "boot"
    /\ reqs' = [reqs EXCEPT ![c] =
                  Append(@, Request("GET", initial_page_url(args[c].symbol),
                                    initial_page_url(args[c].symbol),
                                    jar[session[c]], NoPayload, 10))]
    /\ pc' = [pc EXCEPT ![c] = "bootwait"]
    /\ UNCHANGED <<kind, args, session, jar, resp1, resp2, tokens, data_df,
                   result, raised, log>>
    /\ UNCHANGED <<fn_vars, page_vars>>

\* Lines 50-54: the bootstrap GET returns r (its status is not looked at),
\* or raises and the inner clause prints and goes on.
NseBootRecv(c) ==
    /\ pc[c] = "bootwait"
    /\ \E r \in BootResponses :
          LET e == transport_exception(r.outcome) IN
          /\ resp1' = [resp1 EXCEPT ![c] = r]
          /\ jar' = IF r.cookie
                    THEN [jar EXCEPT ![session[c]] = @ \cup {Cookie(c)}]
                    ELSE jar
          /\ IF e = ""
             THEN /\ pc' = [pc EXCEPT ![c] = "api"]
                  /\ UNCHANGED <<result, raised, log>>
             ELSE IF boot_tolerated(e)
             THEN /\ pc' = [pc EXCEPT ![c] = "api"]
                  /\ log' = [log EXCEPT ![c] = Append(@, MsgNseBootFailed)]
                  /\ UNCHANGED <<result, raised>>
             ELSE NseExcept(c, e, "boot")
    /\ UNCHANGED <<kind, args, session, reqs, resp2, tokens, data_df>>
    /\ UNCHANGED <<fn_vars, page_vars>>

\* Lines 57-58, first half: session.get(api_url, timeout=15) goes out.
NseApiSend(c) ==
    /\ pc[c] = "api"
    /\ reqs' = [reqs EXCEPT ![c] =
                  Append(@, Request("GET", api_url(args[c].symbol),
                                    initial_page_url(args[c].symbol),
                                    jar[session[c]], NoPayload, 15))]
    /\ pc' = [pc EXCEPT ![c] = "apiwait"]
    /\ UNCHANGED <<kind, args, session, jar, resp1, resp2, tokens, data_df,
                   result, raised, log>>
    /\ UNCHANGED <<fn_vars, page_vars>>

\* Lines 58-108: the API GET returns r; raise_for_status; response.json();
\* extraction; return.
NseApiRecv(c, wide) ==
    /\ pc[c] = "apiwait"
    /\ \E r \in ApiResponses(wide) :
          LET exc == IF transport_exception(r.outcome) # ""
                     THEN transport_exception(r.outcome)
                     ELSE IF raise_for_status(r.outcome) # ""
                     THEN raise_for_status(r.outcome)
                     ELSE IF r.body.shape = "nonjson" THEN r.decode_exc
                     ELSE ""
          IN /\ resp2' = [resp2 EXCEPT ![c] = r]
             /\ IF exc # ""
                THEN NseExcept(c, exc, "api")
                ELSE \E o \in extract_option_chain(r.body) :
                        IF o.exc # ""
                        THEN NseExcept(c, o.exc, "api")
                        ELSE /\ result' = [result EXCEPT ![c] = o.value]
                             /\ log' = [log EXCEPT ![c] = @ \o o.log]
                             /\ pc' = [pc EXCEPT ![c] = "done"]
                             /\ UNCHANGED raised
    /\ UNCHANGED <<kind, args, session, jar, reqs, resp1, tokens, data_df>>
    /\ UNCHANGED <<fn_vars, page_vars>>

\* ------------------------------------------------------------ specification
\* One step of call c, in the small (wide = FALSE) or the wide environment.
CallStep(c, wide) ==
    \/ StartJosaa(c, wide)
    \/ JosaaGetSend(c)
    \/ JosaaGetRecv(c, wide)
    \/ JosaaPostSend(c)
    \/ JosaaPostRecv(c, wide)
    \/ StartNse(c, wide)
    \/ NseBootSend(c)
    \/ NseBootRecv(c)
    \/ NseApiSend(c)
    \/ NseApiRecv(c, wide)

\* Concurrent calls, each of either kind, in the small environment.
Next == \E c \in Calls : CallStep(c, FALSE)

Spec == Init /\ [][Next]_vars

\* One call of either kind, in the wide environment.
NextCall == CallStep(1, TRUE)

SpecCall == Init /\ [][NextCall]_vars

\* ------------------------------------------------------------ properties
\* Shorthands over the history of a call.
IsPost(r) == r.method = "POST"
Posts(c) == {i \in 1..Len(reqs[c]) : IsPost(reqs[c][i])}
Done(c) == pc[c] = "done"

\* The first response of call c failed at the network or by its status.
FirstFailed(c) == resp1[c].outcome \in RequestFailures

\* The page came, and one of the three hidden fields gives no value.
TokenMissing(c) ==
    /\ resp1[c].outcome = "ok"
    /\ \E n \in TokenNames : ~resp1[c].page[n].present \/ ~resp1[c].page[n].has_value

SecondFailed(c) == resp2[c].outcome \in RequestFailures

\* C1: in a call of fetch_josaa_orcr_data a POST is issued only as the second
\* request, after the GET has returned 2xx and the page has given all three
\* hidden fields; its body carries those three values unchanged, the five
\* selection fields of the caller and the submit marker.
C1_PostReplaysTokens ==
    \A c \in Calls : \A i \in Posts(c) :
        LET data == reqs[c][i].data
            page == resp1[c].page
        IN /\ kind[c] = "josaa"
           /\ i = 2
           /\ reqs[c][1].method = "GET"
           /\ resp1[c].outcome = "ok"
           /\ \A n \in TokenNames :
                 /\ page[n].present /\ page[n].has_value
                 /\ data[n] = page[n].value
           /\ data["ctl00$ContentPlaceHolder1$ddlroundno"] = ToString(args[c].round_no)
           /\ data["ctl00$ContentPlaceHolder1$ddlInstype"] = args[c].institute_type
           /\ data["ctl00$ContentPlaceHolder1$ddlInstitute"] = args[c].institute_name
           /\ data["ctl00$ContentPlaceHolder1$ddlBranch"] = args[c].program_name
           /\ data["ctl00$ContentPlaceHolder1$ddlSeatType"] = args[c].seat_category
           /\ data["ctl00$ContentPlaceHolder1$btnSubmit"] = "Submit"

\* A POST of a call with a selection other than the defaults is in flight.
C1_Witness ==
    \E c \in Calls :
        /\ pc[c] = "postwait"
        /\ Posts(c) = {2}
        /\ args[c].round_no = 2
        /\ reqs[c][2].data["__VIEWSTATEGENERATOR"] = "vsg#" \o ToString(c)

\* C2: a failed GET (network, timeout, status), a missing token or a failed
\* POST ends the call of fetch_josaa_orcr_data with the failure result; after
\* a failure at the GET or at the tokens no POST is ever issued.
C2_FailureEndsCall ==
    \A c \in Calls :
        kind[c] = "josaa" =>
            /\ (FirstFailed(c) \/ TokenMissing(c)) => Done(c) /\ Posts(c) = {}
            /\ SecondFailed(c) => Done(c)
            /\ (Done(c) /\ (FirstFailed(c) \/ TokenMissing(c) \/ SecondFailed(c)))
                  => raised[c] = "" /\ result[c] = EmptyDF

\* A call that ended because a hidden field was missing from the page.
C2_Witness ==
    \E c \in Calls :
        /\ kind[c] = "josaa" /\ Done(c) /\ TokenMissing(c)
        /\ ~resp1[c].page["__VIEWSTATEGENERATOR"].has_value
        /\ result[c] = EmptyDF

\* The requests of call c that went to url with method m.
Issued(c, m, url) ==
    {i \in 1..Len(reqs[c]) : reqs[c][i].method = m /\ reqs[c][i].url = url}

\* C3: no retries. A call of fetch_josaa_orcr_data issues at most one GET and
\* one POST, a call of fetch_nse_option_data at most one bootstrap GET and
\* one API GET, whatever fails.
C3_NoRetry ==
    \A c \in Calls :
        /\ Cardinality(Issued(c, "GET", JOSAA_ORCR_URL)) <= 1
        /\ Cardinality(Issued(c, "POST", JOSAA_ORCR_URL)) <= 1
        /\ Cardinality(Issued(c, "GET", initial_page_url(args[c].symbol))) <= 1
        /\ Cardinality(Issued(c, "GET", api_url(args[c].symbol))) <= 1
        /\ Len(reqs[c]) <= 2

\* One call of each kind has ended on a failed second request, the NSE one
\* after a failed bootstrap too.
C3_Witness ==
    \E c, d \in Calls :
        /\ kind[c] = "josaa" /\ Done(c) /\ resp2[c].outcome = "timeout"
        /\ kind[d] = "nse" /\ Done(d) /\ resp1[d].outcome = "timeout"
        /\ resp2[d].outcome = "conn_error"
        /\ Len(reqs[c]) = 2 /\ Len(reqs[d]) = 2

\* C4: the two requests of a call share one cookie context that no other
\* call shares: a request carries only cookies set on a response to the same
\* call, the second request carries exactly what the first response set, and
\* the tokens a POST replays are those of the page served to the same call.
C4_SessionPerCall ==
    \A c \in Calls :
        /\ \A d \in Calls : (c # d /\ session[c] # 0) => session[c] # session[d]
        /\ \A i \in 1..Len(reqs[c]) :
              /\ \A k \in reqs[c][i].cookies : k.issued_to = c
              /\ i = 1 => reqs[c][i].cookies = {}
              /\ i = 2 => reqs[c][i].cookies =
                              (IF resp1[c].cookie THEN {Cookie(c)} ELSE {})
              /\ IsPost(reqs[c][i]) =>
                    \A n \in TokenNames : reqs[c][i].data[n] = FullPage(c)[n].value

\* Two calls overlap, each has sent its second request with its own cookie.
C4_Witness ==
    \E c, d \in Calls :
        /\ c # d
        /\ pc[c] = "postwait" /\ pc[d] = "apiwait"
        /\ reqs[c][2].cookies = {Cookie(c)}
        /\ reqs[d][2].cookies = {Cookie(d)}

HandlerMessages ==
    {MsgJosaaTimeout, MsgJosaaRequest, MsgJosaaUnexpected,
     MsgNseRequest, MsgNseDecode, MsgNseUnexpected}

Handled(c) == \E i \in 1..Len(log[c]) : log[c][i] \in HandlerMessages

FailureValue(c) == IF kind[c] = "josaa" THEN EmptyDF ELSE NseFailure

\* C5: no exception leaves a fetch. Whatever fails at whatever step, the call
\* ends by returning a value, and once a handler has run that value is the
\* failure value of the function.
C5_NothingRaised ==
    \A c \in Calls :
        /\ raised[c] = ""
        /\ Done(c) => result[c] # NoResult
        /\ (Done(c) /\ Handled(c)) => result[c] = FailureValue(c)

\* A call whose cleaning stage raised after the table had been selected.
C5_Witness ==
    \E c \in Calls :
        /\ kind[c] = "josaa" /\ Done(c) /\ data_df[c] # 0
        /\ log[c][Len(log[c])] = MsgJosaaUnexpected
        /\ result[c] = EmptyDF

WideTables(body) == {i \in 1..Len(body) : Len(body[i].columns) > 5}

\* The second response arrived with a 2xx status.
SecondOk(c) == resp2[c].outcome = "ok"

\* The records section of a decoded document holds no per-strike record.
NoRecordList(doc) ==
    \/ doc.shape = "null"
    \/ /\ doc.shape = "dict"
       /\ \/ "records" \notin DOMAIN doc.d
          \/ DOMAIN doc.d["records"] = {}
          \/ "data" \notin DOMAIN doc.d["records"]
          \/ Len(doc.d["records"]["data"]) = 0

\* The fetch of call c failed: the source was not reached, or what it sent
\* was not the form page, an HTML document with tables, or JSON.
SourceFailed(c) ==
    \/ SecondFailed(c)
    \/ kind[c] = "josaa" /\ (FirstFailed(c) \/ TokenMissing(c))
    \/ kind[c] = "josaa" /\ SecondOk(c) /\ Len(resp2[c].body) = 0
    \/ kind[c] = "nse" /\ SecondOk(c) /\ resp2[c].body.shape = "nonjson"

\* The fetch of call c reached the source, and the well-formed answer holds
\* no data table, or one without rows, or no per-strike record.
NoUsableRows(c) ==
    /\ SecondOk(c)
    /\ \/ /\ kind[c] = "josaa"
          /\ Len(resp2[c].body) > 0
          /\ \A i \in WideTables(resp2[c].body) :
                (\A j \in WideTables(resp2[c].body) : i <= j)
                    => Len(resp2[c].body[i].rows) = 0
       \/ kind[c] = "nse" /\ NoRecordList(resp2[c].body)

ApiFailure(c) ==
    IF kind[c] # "nse" \/ ~Done(c) THEN ""
    ELSE IF resp2[c].outcome \in TransportFailures THEN "SourceUnavailable"
    ELSE IF SecondOk(c) /\ resp2[c].body.shape = "nonjson" THEN "MalformedResponse"
    ELSE IF SecondOk(c) /\ NoRecordList(resp2[c].body) THEN "NoData"
    ELSE ""

BootFailed(c) == kind[c] = "nse" /\ resp1[c].outcome \in TransportFailures

\* C8: a failed bootstrap is tolerated. The call goes on to the API request,
\* which it has issued by the time it ends, and what it returns is what any
\* call returns for the same API response, its bootstrap failed or not.
C8_BootstrapTolerated ==
    \A c \in Calls :
        BootFailed(c) =>
            /\ pc[c] \in {"api", "apiwait", "done"}
            /\ raised[c] = ""
            /\ Done(c) =>
                  /\ Len(reqs[c]) = 2
                  /\ reqs[c][2].url = api_url(args[c].symbol)
                  /\ resp2[c].outcome # "none"
                  /\ \A d \in Calls :
                        (kind[d] = "nse" /\ Done(d) /\ resp2[d] = resp2[c])
                            => result[d] = result[c]

\* A call whose bootstrap timed out has returned the chain, the same as a
\* call whose bootstrap went through.
C8_Witness ==
    \E c, d \in Calls :
        /\ BootFailed(c) /\ Done(c) /\ kind[d] = "nse" /\ Done(d)
        /\ resp1[d].outcome = "ok"
        /\ resp2[c] = resp2[d] /\ SecondOk(c)
        /\ Len(result[c].calls_df) > 0
        /\ result[c] = result[d]

\* C9: the table bound to data_df is the first, in document order, of the
\* tables with more than 5 columns; when the answer holds no such table the
\* call ends with the failure value and no table selected.
C9_FirstWideTable ==
    \A c \in Calls :
        (kind[c] = "josaa" /\ Done(c) /\ SecondOk(c)) =>
            LET wide == WideTables(resp2[c].body) IN
            IF wide = {}
            THEN /\ data_df[c] = 0 /\ result[c] = EmptyDF /\ raised[c] = ""
                 /\ Len(resp2[c].body) > 0 =>
                        log[c][Len(log[c])] = MsgNoDataTable
            ELSE data_df[c] \in wide /\ \A j \in wide : data_df[c] <= j

\* A document whose first table has 5 columns, the second 6 and the third 7:
\* the second is selected.
C9_Witness ==
    \E c \in Calls :
        /\ kind[c] = "josaa" /\ Done(c) /\ SecondOk(c)
        /\ Len(resp2[c].body) = 3
        /\ Len(resp2[c].body[1].columns) = 5
        /\ Len(resp2[c].body[2].columns) = 6
        /\ Len(resp2[c].body[3].columns) = 7
        /\ data_df[c] = 2

\* The selected table of call c has 7 columns, none of them named.
SelectedPositional7(c) ==
    /\ kind[c] = "josaa" /\ Done(c) /\ SecondOk(c) /\ data_df[c] # 0
    /\ Len(resp2[c].body[data_df[c]].columns) = 7
    /\ \A i \in 1..7 : resp2[c].body[data_df[c]].columns[i] = NumV(i - 1)

\* C10: a selected table of 7 unnamed columns comes back with the columns
\* Institute, Program, Quota, Category, Gender, OpeningRank, ClosingRank, in
\* this order.
C10_CanonicalNames ==
    \A c \in Calls :
        SelectedPositional7(c) =>
            /\ raised[c] = ""
            /\ result[c].columns =
                  <<StrV(<<"I","n","s","t","i","t","u","t","e">>),
                    StrV(<<"P","r","o","g","r","a","m">>),
                    StrV(<<"Q","u","o","t","a">>),
                    StrV(<<"C","a","t","e","g","o","r","y">>),
                    StrV(<<"G","e","n","d","e","r">>),
                    StrV(<<"O","p","e","n","i","n","g","R","a","n","k">>),
                    StrV(<<"C","l","o","s","i","n","g","R","a","n","k">>)>>

\* A headerless 7-column table, selected after a layout table, has come back
\* with rows.
C10_Witness ==
    \E c \in Calls :
        /\ SelectedPositional7(c)
        /\ data_df[c] = 2
        /\ Len(result[c].rows) = 2
        /\ result[c].rows[2][6] = NumV(98)


\* The table bound to data_df in call c.
SelectedTable(c) == resp2[c].body[data_df[c]]

\* Call c has ended after selecting a table of 7 columns.
Selected7(c) ==
    /\ kind[c] = "josaa" /\ Done(c) /\ SecondOk(c) /\ data_df[c] # 0
    /\ Len(SelectedTable(c).columns) = 7

\* Heading number k (1: institute ... 7: closing rank) is named by label.
Names(label, k) ==
    LET has(kw) == label.t = "str" /\ Contains(Lower(label.s), kw) IN
    CASE k = 1 -> has(kw_institute)
      [] k = 2 -> has(kw_program)
      [] k = 3 -> has(kw_quota)
      [] k = 4 -> has(kw_category) \/ has(kw_seat_type)
      [] k = 5 -> has(kw_gender)
      [] k = 6 -> has(kw_opening) /\ has(kw_rank)
      [] k = 7 -> has(kw_closing) /\ has(kw_rank)

\* A row of the seven headings, in the order of the source's table.
IsHeaderRow(row) == Len(row) = 7 /\ \A k \in 1..7 : Names(row[k], k)

\* The name a label is to get: that of the first heading it names, its own
\* when it names none.
ExpectedName(label) ==
    IF \E k \in 1..7 : Names(label, k)
    THEN CanonicalColumns[CHOOSE k \in 1..7 :
                              Names(label, k) /\ \A j \in 1..(k - 1) : ~Names(label, j)]
    ELSE label

\* C11: when the first row of a selected 7-column table is the row of
\* headings and data rows follow, the call returns the canonical columns and
\* the heading row is no row of the result; and whenever the columns of a
\* selected 7-column table carry names, each returned column has the name of
\* the first rule its heading matches, its own name when it matches none.
C11_HeaderRowPromoted ==
    \A c \in Calls :
        Selected7(c) =>
            LET T == SelectedTable(c)
                headed == Len(T.rows) >= 2 /\ IsHeaderRow(T.rows[1])
                labels == IF header_like(T.rows[1]) THEN T.rows[1] ELSE T.columns
            IN /\ headed =>
                    /\ raised[c] = ""
                    /\ result[c].columns = CanonicalColumns
                    /\ \A r \in 1..Len(result[c].rows) :
                          /\ result[c].rows[r][1] # T.rows[1][1]
                          /\ \E q \in 2..Len(T.rows) :
                                \A i \in 1..5 : result[c].rows[r][i] = T.rows[q][i]
               /\ (~all_int_columns(T) /\ Len(T.rows) >= 1 /\ Handled(c) = FALSE) =>
                    \A i \in 1..7 : result[c].columns[i] = ExpectedName(labels[i])

\* A table with a title for header and the headings in its first row has
\* come back with the canonical columns and its data rows.
C11_Witness ==
    \E c \in Calls :
        /\ Selected7(c)
        /\ ~all_int_columns(SelectedTable(c))
        /\ IsHeaderRow(SelectedTable(c).rows[1])
        /\ result[c].columns = CanonicalColumns
        /\ Len(result[c].rows) = 2
        /\ result[c].rows[1][6] = NumV(12)


\* Call c has ended after selecting a table with rows whose column count is
\* not 7.
SelectedNot7(c) ==
    /\ kind[c] = "josaa" /\ Done(c) /\ SecondOk(c) /\ data_df[c] # 0
    /\ Len(SelectedTable(c).columns) # 7
    /\ Len(SelectedTable(c).rows) >= 1

\* C12: a selected table whose column count is not 7 does not make the call
\* fail; the call returns its rows under the column labels it came with.
C12_OtherWidthsReturned ==
    \A c \in Calls :
        SelectedNot7(c) =>
            /\ raised[c] = "" /\ ~Handled(c)
            /\ result[c].columns = SelectedTable(c).columns
            /\ Len(result[c].rows) = Len(SelectedTable(c).rows)


\* ------------------------------------------------------------ clean_rank alone
\* Longest rank cell, in pieces.
MaxPieces == 3

\* What rank cells are made of: digits, the P mark, the PwD mark, a blank,
\* a letter.
RankPieces == {<<"1","2">>, <<"5">>, <<"P">>, <<" ">>, <<"a">>, PwDSuffix}

RECURSIVE Join(_)
Join(pieces) == IF pieces = <<>> THEN <<>> ELSE Head(pieces) \o Join(Tail(pieces))

\* Cells of the source's tables.
c_1234 == StrV(<<"1","2","3","4">>)
c_987P == StrV(<<"9","8","7","P">>)
c_455PwD == StrV(<<"4","5","5"," ","(","P","w","D",")">>)

\* The cells clean_rank is applied to: None/NaN, a number, cells of the
\* source, and the strings of up to MaxPieces pieces.
RankCells ==
    {NaN, NumV(1234), c_1234, c_987P, c_455PwD, c_abc}
    \cup {StrV(Join(q)) : q \in UNION {[1..k -> RankPieces] : k \in 0..MaxPieces}}

InitRank == InitCalls /\ InitPages /\ fn = "" /\ input \in RankCells /\ output = NoResult

\* data_df[...].apply(clean_rank), for one cell.
ApplyCleanRank ==
    /\ fn = ""
    /\ fn' = "clean_rank"
    /\ output' = clean_rank(input)
    /\ UNCHANGED <<input, call_vars, page_vars>>

SpecRank == InitRank /\ [][ApplyCleanRank]_vars

\* The rules of the rank parser: null for a null or blank cell; the PwD mark
\* stripped where it ends the string; a final P dropped; the rest read as a
\* number, null when it is none.
ExpectedRank(cell) ==
    IF cell.t = "nan" THEN NaN
    ELSE LET s0 == Strip(PyStr(cell)) IN
         IF s0 = <<>> THEN NaN
         ELSE LET s == IF EndsWith(s0, PwDSuffix)
                       THEN SubSeq(s0, 1, Len(s0) - Len(PwDSuffix)) ELSE s0
              IN IF EndsWith(s, <<"P">>) THEN to_numeric(SubSeq(s, 1, Len(s) - 1))
                 ELSE to_numeric(s)

\* C13: clean_rank gives, for every cell, what the rules give: null or blank
\* is null, the PwD mark is stripped only as a suffix, then a final P is
\* dropped, then the string is read as a number or gives null.
C13_RankRules ==
    fn = "clean_rank" => output = ExpectedRank(input)


\* The labels the naming rules are applied to, and the rows below them.
EffectiveLabels(T) ==
    IF all_int_columns(T) THEN CanonicalColumns
    ELSE IF header_like(T.rows[1]) THEN T.rows[1] ELSE T.columns
DataRows(T) ==
    IF ~all_int_columns(T) /\ header_like(T.rows[1]) THEN Tail(T.rows) ELSE T.rows

\* Call c has ended after selecting a table of the source's seven columns,
\* with rows.
SelectedRankTable(c) ==
    /\ Selected7(c)
    /\ Len(SelectedTable(c).rows) >= 1
    /\ IsHeaderRow(EffectiveLabels(SelectedTable(c)))

\* Both rank cells of a row can be parsed.
RanksParse(row) == clean_rank(row[6]).t = "num" /\ clean_rank(row[7]).t = "num"

\* C14 as stated: a rank cell that cannot be parsed leaves its row in the
\* result; the call returns as many rows as the table has data rows.
C14_BadRankRowKept ==
    \A c \in Calls :
        SelectedRankTable(c) =>
            /\ raised[c] = "" /\ ~Handled(c)
            /\ Len(result[c].rows) = Len(DataRows(SelectedTable(c)))

\* C14 amended: a rank cell that cannot be parsed removes its row, and only
\* its row. The call does not fail; it returns, in order, exactly the data
\* rows whose opening and closing rank both parse, the other cells as they
\* came and the ranks as numbers, so that no returned rank is null.
C14_BadRankRowDropped ==
    \A c \in Calls :
        SelectedRankTable(c) =>
            LET kept == SelectSeq(DataRows(SelectedTable(c)), RanksParse) IN
            /\ raised[c] = "" /\ ~Handled(c)
            /\ Len(result[c].rows) = Len(kept)
            /\ \A r \in 1..Len(kept) :
                  /\ \A i \in 1..5 : result[c].rows[r][i] = kept[r][i]
                  /\ result[c].rows[r][6] = clean_rank(kept[r][6])
                  /\ result[c].rows[r][7] = clean_rank(kept[r][7])
                  /\ result[c].rows[r][6].t = "num"
                  /\ result[c].rows[r][7].t = "num"

\* A table of three rows, the opening rank of the third being "abc", has
\* come back as its first two rows.
C14_Witness ==
    \E c \in Calls :
        /\ SelectedRankTable(c)
        /\ Len(SelectedTable(c).rows) = 3
        /\ SelectedTable(c).rows[3][6] = c_abc
        /\ Len(result[c].rows) = 2
        /\ result[c].rows[2][6] = NumV(98)


\* The per-strike records of the document call c received (none when the
\* call did not get as far as reading them).
StrikeRecords(c) ==
    IF /\ kind[c] = "nse" /\ Done(c) /\ SecondOk(c)
       /\ resp2[c].body.shape = "dict"
       /\ ~NoRecordList(resp2[c].body)
    THEN resp2[c].body.d["records"]["data"]
    ELSE <<>>

\* Call c has returned the chain of a document with per-strike records.
ChainReturned(c) == StrikeRecords(c) # <<>> /\ ~Handled(c) /\ raised[c] = ""

\* C15: the expiry list holds every distinct expiryDate string of the
\* records once, ordered by the calendar date the strings denote (not as
\* text): 25-Jan-2025 before 02-Feb-2025 before 01-Dec-2025.
C15_ExpiriesByDate ==
    \A c \in Calls :
        ChainReturned(c) =>
            LET recs == StrikeRecords(c)
                L == result[c].expiry_dates_list
            IN /\ {L[i] : i \in 1..Len(L)} = {recs[i]["expiryDate"].s : i \in 1..Len(recs)}
               /\ \A i, j \in 1..Len(L) : i # j => L[i] # L[j]
               /\ \A i, j \in 1..Len(L) :
                     i < j => strptime(L[i]).key <= strptime(L[j]).key
               /\ \A i, j \in 1..Len(L) :
                     \/ L[i] = e_25Jan.s /\ L[j] \in {e_02Feb.s, e_01Dec.s}
                     \/ L[i] = e_02Feb.s /\ L[j] = e_01Dec.s
                     => i < j

\* Four records listed as 01-Dec, 02-Feb, 25-Jan, 02-Feb have given the
\* list 25-Jan, 02-Feb, 01-Dec.
C15_Witness ==
    \E c \in Calls :
        /\ ChainReturned(c)
        /\ Len(StrikeRecords(c)) = 4
        /\ StrikeRecords(c)[1]["expiryDate"] = e_01Dec
        /\ StrikeRecords(c)[2]["expiryDate"] = e_02Feb
        /\ StrikeRecords(c)[4]["expiryDate"] = e_02Feb
        /\ result[c].expiry_dates_list = <<e_25Jan.s, e_02Feb.s, e_01Dec.s>>


\* ------------------------------------------------- open interest by strike
\* The open-interest analysis of the indices dashboard
\* (pages/indian_indices_dashboard.py, lines 125-196) on the calls and puts of
\* the selected expiry.  A frame is the sequence of its rows; both frames
\* carry the columns strikePrice and openInterest (the guard of line 159).
MaxRows == 2

OIRow(strike, oi) == ("strikePrice" :> strike) @@ ("openInterest" :> oi)

\* pd.to_numeric(column, errors='coerce') on one cell: numbers stay, numeric
\* text parses, everything else (other text, None, NaN) becomes NaN.
to_numeric_cell(v) ==
    CASE v.t = "num" -> v
      [] v.t = "str" -> to_numeric(v.s)
      [] OTHER -> NaN

\* .fillna(0) on one cell
fillna_cell(v) == IF v.t = "nan" THEN NumV(0) ELSE v

\* Lines 162-172: the two columns copied, strikePrice coerced, openInterest
\* coerced with nulls filled by 0 and renamed to `name`.
oi_data(df, name) ==
    [i \in 1..Len(df) |->
        ("strikePrice" :> to_numeric_cell(df[i]["strikePrice"]))
        @@ (name :> fillna_cell(to_numeric_cell(df[i]["openInterest"])))]

rows_with(df, k) ==
    LET on_key(r) == r["strikePrice"] = k IN SelectSeq(df, on_key)

merged_row(k, call, put) ==
    ("strikePrice" :> k) @@ ("Call OI" :> call) @@ ("Put OI" :> put)

\* The rows pd.merge(..., how='outer') gives for one key: every pairing of a
\* left row with a right row, or the rows of the one side with NaN for the
\* other.  NaN keys match each other.
merge_key(left, right, k) ==
    LET L == rows_with(left, k)
        R == rows_with(right, k)
    IN IF R = <<>>
       THEN [i \in 1..Len(L) |-> merged_row(k, L[i]["Call OI"], NaN)]
       ELSE IF L = <<>>
            THEN [i \in 1..Len(R) |-> merged_row(k, NaN, R[i]["Put OI"])]
            ELSE [i \in 1..(Len(L) * Len(R)) |->
                     merged_row(k, L[((i - 1) \div Len(R)) + 1]["Call OI"],
                                   R[((i - 1) % Len(R)) + 1]["Put OI"])]

\* An outer merge orders its result by key, NaN last.
RECURSIVE merge_keys(_, _, _)
merge_keys(left, right, K) ==
    IF K = {} THEN <<>>
    ELSE LET nums == {k \in K : k.t = "num"}
             k == IF nums # {}
                  THEN CHOOSE m \in nums : \A o \in nums : m.n <= o.n
                  ELSE NaN
         IN merge_key(left, right, k) \o merge_keys(left, right, K \ {k})

\* An inner merge: only the keys both frames hold.
merge_inner(left, right) ==
    merge_keys(left, right,
               {left[i]["strikePrice"] : i \in 1..Len(left)}
               \cap {right[i]["strikePrice"] : i \in 1..Len(right)})

\* Line 174: pd.merge(call_oi_data, put_oi_data, on='strikePrice', how='outer')
merge_outer(left, right) ==
    merge_keys(left, right,
               {left[i]["strikePrice"] : i \in 1..Len(left)}
               \cup {right[i]["strikePrice"] : i \in 1..Len(right)})

\* Line 174: .fillna(0) on the merged frame, every column
fillna(df) ==
    [i \in 1..Len(df) |-> [col \in DOMAIN df[i] |-> fillna_cell(df[i][col])]]

\* Line 175: sort_values(by='strikePrice'); frames of this size are sorted by
\* insertion, so rows of equal strike keep their order.
RECURSIVE sort_values(_)
sort_values(df) ==
    IF df = <<>> THEN <<>>
    ELSE LET r == df[Len(df)]
             s == sort_values(SubSeq(df, 1, Len(df) - 1))
             not_after(x) == x["strikePrice"].n <= r["strikePrice"].n
             after(x) == x["strikePrice"].n > r["strikePrice"].n
         IN SelectSeq(s, not_after) \o <<r>> \o SelectSeq(s, after)

\* Lines 162-175
oi_by_strike(calls_df_expiry, puts_df_expiry) ==
    sort_values(fillna(merge_outer(oi_data(calls_df_expiry, "Call OI"),
                                   oi_data(puts_df_expiry, "Put OI"))))

\* Lines 182-183: oi_by_strike[col].sum()
RECURSIVE column_sum(_, _)
column_sum(df, col) ==
    IF df = <<>> THEN 0 ELSE df[1][col].n + column_sum(Tail(df), col)

MetricUndefined == "N/A (Call OI is 0)"

\* A ratio computed whenever the call total is not 0.
pcr_oi_nonzero(total_call_oi_merged, total_put_oi_merged) ==
    IF total_call_oi_merged # 0
    THEN [value |-> "ratio", put |-> total_put_oi_merged, call |-> total_call_oi_merged]
    ELSE [value |-> MetricUndefined, put |-> 0, call |-> 0]

\* Lines 185-189: the put-call ratio put/call, kept as the two totals, or
\* the text shown in its place.
pcr_oi(total_call_oi_merged, total_put_oi_merged) ==
    IF total_call_oi_merged > 0
    THEN [value |-> "ratio", put |-> total_put_oi_merged, call |-> total_call_oi_merged]
    ELSE [value |-> MetricUndefined, put |-> 0, call |-> 0]

NoMetric == [value |-> "", put |-> 0, call |-> 0]

\* Lines 125-196 with the columns present: what the page shows.
open_interest_analysis(calls_df_expiry, puts_df_expiry) ==
    IF calls_df_expiry = <<>> /\ puts_df_expiry = <<>>
    THEN [shown |-> "no_data", oi_by_strike |-> <<>>, metric |-> NoMetric]
    ELSE LET oi == oi_by_strike(calls_df_expiry, puts_df_expiry)
         IN IF oi = <<>>
            THEN [shown |-> "warning", oi_by_strike |-> oi, metric |-> NoMetric]
            ELSE [shown |-> "chart", oi_by_strike |-> oi,
                  metric |-> pcr_oi(column_sum(oi, "Call OI"),
                                    column_sum(oi, "Put OI"))]

\* Rows the filtered frames can hold: strikes as numbers or text, open
\* interest as a number (zero, positive, negative), text or missing.
c_110 == StrV(<<"1","1","0">>)
c_7 == StrV(<<"7">>)
OIRows ==
    {OIRow(NumV(100), NumV(5)), OIRow(NumV(100), NumV(0)),
     OIRow(NumV(110), c_7), OIRow(c_110, NumV(3)),
     OIRow(c_abc, NumV(4)), OIRow(NumV(120), NullV),
     OIRow(NumV(90), NumV(0 - 5))}

OIFrames == UNION {[1..k -> OIRows] : k \in 0..MaxRows}

InitOI ==
    /\ InitCalls
    /\ InitPages
    /\ fn = ""
    /\ input \in [calls : OIFrames, puts : OIFrames]
    /\ output = NoResult

ShowOpenInterest ==
    /\ fn = ""
    /\ fn' = "open_interest_analysis"
    /\ output' = open_interest_analysis(input.calls, input.puts)
    /\ UNCHANGED <<input, call_vars, page_vars>>

SpecOI == InitOI /\ [][ShowOpenInterest]_vars


\* The analysis has run on the input frames and drawn its chart.
Charted == fn = "open_interest_analysis" /\ output.shown = "chart"

\* The strikes of a frame: the numbers its strikePrice cells denote.
StrikesOf(df) ==
    {to_numeric_cell(df[i]["strikePrice"]).n :
        i \in {j \in 1..Len(df) : to_numeric_cell(df[j]["strikePrice"]).t = "num"}}

\* C16: the aggregation holds exactly one row for every strike found in
\* the calls or the puts (as many rows as distinct strikes in both inputs
\* together), in ascending order of strike.
C16_OneRowPerStrike ==
    Charted =>
        LET rows == output.oi_by_strike
            S == StrikesOf(input.calls) \cup StrikesOf(input.puts)
        IN /\ Len(rows) = Cardinality(S)
           /\ \A s \in S :
                 Cardinality({i \in 1..Len(rows) : rows[i]["strikePrice"].n = s}) = 1
           /\ \A i, j \in 1..Len(rows) :
                 i < j => rows[i]["strikePrice"].n < rows[j]["strikePrice"].n


\* The strike under which the output lists an input row: the number its
\* strikePrice denotes, 0 when it denotes none.
ShownStrike(row) == fillna_cell(to_numeric_cell(row["strikePrice"])).n

\* The open interest an input row contributes.
ShownOI(row) == fillna_cell(to_numeric_cell(row["openInterest"])).n

ShownStrikes(df) == {ShownStrike(df[i]) : i \in 1..Len(df)}

OIAt(df, s) == {ShownOI(df[i]) : i \in {j \in 1..Len(df) : ShownStrike(df[j]) = s}}

\* C17 as stated: a row's call OI is 0 exactly when its strike is absent
\* from the calls, its put OI is 0 exactly when its strike is absent from the
\* puts, and no strike of either input is missing from the rows.
C17_ZeroIffAbsent ==
    Charted =>
        LET rows == output.oi_by_strike IN
        /\ \A i \in 1..Len(rows) :
              /\ rows[i]["Call OI"].n = 0
                    <=> rows[i]["strikePrice"].n \notin ShownStrikes(input.calls)
              /\ rows[i]["Put OI"].n = 0
                    <=> rows[i]["strikePrice"].n \notin ShownStrikes(input.puts)
        /\ \A s \in ShownStrikes(input.calls) \cup ShownStrikes(input.puts) :
              \E i \in 1..Len(rows) : rows[i]["strikePrice"].n = s

\* C17: a row whose strike is absent from the calls has call OI 0, a row
\* whose strike is among the calls carries the open interest of a call at
\* that strike (which may itself be 0); likewise for the puts; and every
\* strike of either input has a row.
C17_AbsentSideIsZero ==
    Charted =>
        LET rows == output.oi_by_strike IN
        /\ \A i \in 1..Len(rows) :
              LET s == rows[i]["strikePrice"].n IN
              /\ IF s \in ShownStrikes(input.calls)
                 THEN rows[i]["Call OI"].n \in OIAt(input.calls, s)
                 ELSE rows[i]["Call OI"].n = 0
              /\ IF s \in ShownStrikes(input.puts)
                 THEN rows[i]["Put OI"].n \in OIAt(input.puts, s)
                 ELSE rows[i]["Put OI"].n = 0
        /\ \A s \in ShownStrikes(input.calls) \cup ShownStrikes(input.puts) :
              \E i \in 1..Len(rows) : rows[i]["strikePrice"].n = s

\* Calls at 100 with open interest 0 and puts only at 110: the row of 100
\* shows call OI 0 though the strike is among the calls, and both one-sided
\* strikes have their row.
C17_Witness ==
    /\ Charted
    /\ input.calls = <<OIRow(NumV(100), NumV(0))>>
    /\ input.puts = <<OIRow(NumV(110), c_7)>>
    /\ output.oi_by_strike =
          <<merged_row(NumV(100), NumV(0), NumV(0)),
            merged_row(NumV(110), NumV(0), NumV(7))>>


\* The totals over all rows of the aggregation.
TotalCallOI == column_sum(output.oi_by_strike, "Call OI")
TotalPutOI == column_sum(output.oi_by_strike, "Put OI")

MaxPhrases == 2

IsUpperChar(ch) == \E i \in 1..26 : UpperChars[i] = ch
IsLowerChar(ch) == \E i \in 1..26 : LowerChars[i] = ch
IsAlphaChar(ch) == IsUpperChar(ch) \/ IsLowerChar(ch)
\* \w of the regular expressions
IsWordChar(ch) == IsAlphaChar(ch) \/ IsDigit(ch) \/ ch = "_"

\* str.upper() on one character
UpperChar(ch) ==
    IF IsLowerChar(ch)
    THEN UpperChars[CHOOSE i \in 1..26 : LowerChars[i] = ch]
    ELSE ch

\* str.upper()
Upper(s) == [i \in 1..Len(s) |-> UpperChar(s[i])]

\* The end of the run of characters of one class that starts at i.
RECURSIVE run_end(_, _, _)
run_end(s, i, digits) ==
    IF i < Len(s) /\ (IF digits THEN IsDigit(s[i + 1]) ELSE IsWordChar(s[i + 1]))
    THEN run_end(s, i + 1, digits)
    ELSE i

\* nlp(text): the tokens of the text from position i on.  Blanks separate
\* tokens, a run of letters and digits is one token, and every other
\* character is a token of its own.
RECURSIVE tokens_from(_, _)
tokens_from(text, i) ==
    IF i > Len(text) THEN <<>>
    ELSE IF IsSpace(text[i]) THEN tokens_from(text, i + 1)
    ELSE LET j == IF IsWordChar(text[i]) THEN run_end(text, i, FALSE) ELSE i
         IN <<SubSeq(text, i, j)>> \o tokens_from(text, j + 1)

nlp(text) == tokens_from(text, 1)

\* token.is_alpha and token.is_upper
is_alpha(tok) == tok # <<>> /\ \A i \in 1..Len(tok) : IsAlphaChar(tok[i])
is_upper(tok) ==
    /\ \E i \in 1..Len(tok) : IsUpperChar(tok[i])
    /\ \A i \in 1..Len(tok) : ~IsLowerChar(tok[i])

\* Lines 22-24 (and again 44-46): the tokens kept by the upper-case rule.
upper_case_tokens(doc) ==
    {doc[i] : i \in {j \in 1..Len(doc) :
                        /\ is_upper(doc[j]) /\ is_alpha(doc[j])
                        /\ Len(doc[j]) > 1 /\ Len(doc[j]) <= 5}}

\* An organization rule that adds the first word of the span in upper case.
org_tickers_first_word(doc, ents) ==
    {Upper(doc[e.start]) : e \in {x \in ents : x.label = "ORG"}}

\* Lines 30-40: the loop over the ORG entities ends in `pass`.
org_tickers(doc, ents) == {}

\* Every order a list built from the set S can have.
list_of(S) ==
    {q \in [1..Cardinality(S) -> S] :
        \A i, j \in 1..Cardinality(S) : i # j => q[i] # q[j]}

\* extract_tickers: list(tickers), in whichever order the set gives.
extract_tickers(text, ents) ==
    LET doc == nlp(text)
        found == upper_case_tokens(doc) \cup org_tickers(doc, ents)
        tickers == IF found = {} THEN upper_case_tokens(doc) ELSE found
    IN list_of(tickers)

\* re.search(r"(\d+)\s*(unit|...)\b", text_lower): group(1) of the leftmost
\* match, or the empty str without a match.
unit_at(s, p, units) ==
    \E u \in units :
        /\ p + Len(u) - 1 <= Len(s)
        /\ SubSeq(s, p, p + Len(u) - 1) = u
        /\ (p + Len(u) > Len(s) \/ ~IsWordChar(s[p + Len(u)]))

RECURSIVE skip_spaces(_, _)
skip_spaces(s, p) ==
    IF p <= Len(s) /\ IsSpace(s[p]) THEN skip_spaces(s, p + 1) ELSE p

search_number_unit(s, units) ==
    LET starts == {i \in 1..Len(s) :
                      /\ IsDigit(s[i])
                      /\ (i = 1 \/ ~IsDigit(s[i - 1]))
                      /\ unit_at(s, skip_spaces(s, run_end(s, i, TRUE) + 1), units)}
    IN IF starts = {} THEN <<>>
       ELSE LET i == CHOOSE m \in starts : \A o \in starts : m <= o
            IN SubSeq(s, i, run_end(s, i, TRUE))

P_ytd == <<"y","t","d">>
P_1mo == <<"1","m","o">>
P_6mo == <<"6","m","o">>
P_1y == <<"1","y">>
P_max == <<"m","a","x">>
UnitsMonth == {<<"m","o","n","t","h">>, <<"m","o","n","t","h","s">>, <<"m","o">>}
UnitsYear == {<<"y","e","a","r">>, <<"y","e","a","r","s">>, <<"y","r">>, <<"y">>}
UnitsDay == {<<"d","a","y">>, <<"d","a","y","s">>, <<"d">>}

\* A period extraction that tries the day rule before the year rule.
extract_period_days_first(text) ==
    LET text_lower == Lower(text)
        months == search_number_unit(text_lower, UnitsMonth)
        years == search_number_unit(text_lower, UnitsYear)
        days == search_number_unit(text_lower, UnitsDay)
    IN IF Contains(text_lower, <<"y","e","a","r"," ","t","o"," ","d","a","t","e">>) \/ Contains(text_lower, P_ytd)
       THEN StrV(P_ytd)
       ELSE IF months # <<>> THEN StrV(months \o <<"m","o">>)
       ELSE IF days # <<>> THEN StrV(days \o <<"d">>)
       ELSE IF years # <<>> THEN StrV(years \o <<"y">>)
       ELSE IF Contains(text_lower, <<"l","a","s","t"," ","m","o","n","t","h">>) \/ Contains(text_lower, <<"p","a","s","t"," ","m","o","n","t","h">>)
            THEN StrV(P_1mo)
       ELSE IF \/ Contains(text_lower, <<"l","a","s","t"," ","s","i","x"," ","m","o","n","t","h","s">>)
               \/ Contains(text_lower, <<"p","a","s","t"," ","s","i","x"," ","m","o","n","t","h","s">>)
            THEN StrV(P_6mo)
       ELSE IF Contains(text_lower, <<"l","a","s","t"," ","y","e","a","r">>) \/ Contains(text_lower, <<"p","a","s","t"," ","y","e","a","r">>)
            THEN StrV(P_1y)
       ELSE IF Contains(text_lower, <<"m","a","x">>) \/ Contains(text_lower, <<"a","l","l"," ","t","i","m","e">>)
            THEN StrV(P_max)
       ELSE NullV

\* extract_period: the period as a str, or None
extract_period(text) ==
    LET text_lower == Lower(text)
        months == search_number_unit(text_lower, UnitsMonth)
        years == search_number_unit(text_lower, UnitsYear)
        days == search_number_unit(text_lower, UnitsDay)
    IN IF Contains(text_lower, <<"y","e","a","r"," ","t","o"," ","d","a","t","e">>) \/ Contains(text_lower, P_ytd)
       THEN StrV(P_ytd)
       ELSE IF months # <<>> THEN StrV(months \o <<"m","o">>)
       ELSE IF years # <<>> THEN StrV(years \o <<"y">>)
       ELSE IF days # <<>> THEN StrV(days \o <<"d">>)
       ELSE IF Contains(text_lower, <<"l","a","s","t"," ","m","o","n","t","h">>) \/ Contains(text_lower, <<"p","a","s","t"," ","m","o","n","t","h">>)
            THEN StrV(P_1mo)
       ELSE IF \/ Contains(text_lower, <<"l","a","s","t"," ","s","i","x"," ","m","o","n","t","h","s">>)
               \/ Contains(text_lower, <<"p","a","s","t"," ","s","i","x"," ","m","o","n","t","h","s">>)
            THEN StrV(P_6mo)
       ELSE IF Contains(text_lower, <<"l","a","s","t"," ","y","e","a","r">>) \/ Contains(text_lower, <<"p","a","s","t"," ","y","e","a","r">>)
            THEN StrV(P_1y)
       ELSE IF Contains(text_lower, <<"m","a","x">>) \/ Contains(text_lower, <<"a","l","l"," ","t","i","m","e">>)
            THEN StrV(P_max)
       ELSE NullV

\* An intent extraction that looks for the trend words first.
extract_intent_trend_first(text) ==
    LET text_lower == Lower(text) IN
    IF \/ Contains(text_lower, <<"t","r","e","n","d">>) \/ Contains(text_lower, <<"p","e","r","f","o","r","m","a","n","c","e">>)
       \/ Contains(text_lower, <<"h","i","s","t","o","r","y">>) \/ Contains(text_lower, <<"h","i","s","t","o","r","i","c","a","l">>)
    THEN "trend"
    ELSE IF \/ Contains(text_lower, <<"c","o","m","p","a","r","e">>) \/ Contains(text_lower, <<"v","s">>)
            \/ Contains(text_lower, <<"v","e","r","s","u","s">>)
         THEN "compare"
    ELSE IF \/ Contains(text_lower, <<"p","r","i","c","e">>) \/ Contains(text_lower, <<"v","a","l","u","e">>)
            \/ Contains(text_lower, <<"c","u","r","r","e","n","t"," ","s","t","o","c","k"," ","p","r","i","c","e">>)
         THEN "price"
    ELSE "unknown"

\* extract_intent
extract_intent(text) ==
    LET text_lower == Lower(text) IN
    IF \/ Contains(text_lower, <<"c","o","m","p","a","r","e">>) \/ Contains(text_lower, <<"v","s">>)
       \/ Contains(text_lower, <<"v","e","r","s","u","s">>)
    THEN "compare"
    ELSE IF \/ Contains(text_lower, <<"t","r","e","n","d">>) \/ Contains(text_lower, <<"p","e","r","f","o","r","m","a","n","c","e">>)
            \/ Contains(text_lower, <<"h","i","s","t","o","r","y">>) \/ Contains(text_lower, <<"h","i","s","t","o","r","i","c","a","l">>)
         THEN "trend"
    ELSE IF \/ Contains(text_lower, <<"p","r","i","c","e">>) \/ Contains(text_lower, <<"v","a","l","u","e">>)
            \/ Contains(text_lower, <<"c","u","r","r","e","n","t"," ","s","t","o","c","k"," ","p","r","i","c","e">>)
         THEN "price"
    ELSE "unknown"

\* Lines 109-110: the default period
default_period(period) == IF period.t = "null" THEN StrV(P_1y) ELSE period

\* A downgrade applied only when no ticker at all was found.
downgrade_without_tickers(intent, tickers) ==
    IF intent = "compare" /\ Len(tickers) < 1 THEN "trend" ELSE intent

\* Lines 116-117: compare needs two tickers
downgrade(intent, tickers) ==
    IF intent = "compare" /\ Len(tickers) <= 1 THEN "trend" ELSE intent

\* parse_query: the results it can return (one for each order of the
\* ticker list).
parse_query(query_text, ents) ==
    {[tickers |-> tickers,
      period |-> default_period(extract_period(query_text)),
      intent |-> downgrade(extract_intent(query_text), tickers)] :
        tickers \in extract_tickers(query_text, ents)}

\* Phrases a query is put together from.
Phrases ==
    {<<"c","o","m","p","a","r","e">>, <<"A","A","P","L"," ","v","s"," ","M","S","F","T">>, <<"A","A","P","L">>, <<"M","S","F","T",","," ","A","A","P","L">>, <<"t","r","e","n","d">>, <<"P","r","i","c","e">>,
     <<"A","p","p","l","e"," ","I","n","c">>, <<"A"," ","A","B","C","D","E","F"," ","T","s","l","a">>, <<"y","t","d">>, <<"6"," ","m","o","n","t","h","s">>, <<"2","y">>, <<"5","d">>,
     <<"l","a","s","t"," ","y","e","a","r">>, <<"m","a","x">>, <<"h","i","s","t","o","r","y">>, <<"r","e","v","s">>, <<"3"," ","m","o","n","t","h","l","y">>,
     <<"p","a","s","t"," ","m","o","n","t","h">>, <<"l","a","s","t"," ","s","i","x"," ","m","o","n","t","h","s">>, <<"y","e","a","r"," ","t","o"," ","d","a","t","e">>, <<"a","l","l"," ","t","i","m","e">>,
     <<"v","e","r","s","u","s">>, <<"p","e","r","f","o","r","m","a","n","c","e">>, <<"v","a","l","u","e">>}

RECURSIVE JoinWords(_)
JoinWords(q) ==
    IF q = <<>> THEN <<>>
    ELSE IF Len(q) = 1 THEN q[1]
    ELSE q[1] \o <<" ">> \o JoinWords(Tail(q))

QueryTexts == {JoinWords(q) : q \in UNION {[1..k -> Phrases] : k \in 0..MaxPhrases}}

\* What the tagger may report for a text: nothing, or one ORG span of one
\* or two adjacent tokens that start with a capital letter.
Capitalised(tok) == IsUpperChar(tok[1])
TaggerResults(text) ==
    LET doc == nlp(text) IN
    {{}} \cup
    {{[start |-> i, end |-> j, label |-> "ORG"]} :
        <<i, j>> \in {p \in (1..Len(doc)) \X (1..Len(doc)) :
                         /\ p[1] <= p[2] /\ p[2] <= p[1] + 1
                         /\ \A k \in p[1]..p[2] : Capitalised(doc[k])}}

Queries ==
    UNION {{[text |-> t, ents |-> e] : e \in TaggerResults(t)} : t \in QueryTexts}

InitQuery ==
    /\ InitCalls
    /\ InitPages
    /\ fn = ""
    /\ input \in Queries
    /\ output = NoResult

ParseQuery ==
    /\ fn = ""
    /\ fn' = "parse_query"
    /\ output' \in parse_query(input.text, input.ents)
    /\ UNCHANGED <<input, call_vars, page_vars>>

SpecQuery == InitQuery /\ [][ParseQuery]_vars


\* parse_query has returned.
Parsed == fn = "parse_query"

\* C19: parse_query returns for every text, and what it returns has all
\* of tickers, period and intent: the period is never unset (1y when no
\* period rule matched), the intent is one of trend, compare, price and
\* unknown, it is compare only with at least 2 tickers (compare with fewer is
\* turned into trend), and tickers and intent are otherwise as extracted.
C19_FullyPopulated ==
    /\ fn = "" => parse_query(input.text, input.ents) # {}
    /\ Parsed =>
          LET period == extract_period(input.text)
              intent == extract_intent(input.text)
          IN /\ DOMAIN output = {"tickers", "period", "intent"}
             /\ output.period.t = "str"
             /\ output.period = IF period.t = "null" THEN StrV(<<"1","y">>) ELSE period
             /\ output.intent \in {"trend", "compare", "price", "unknown"}
             /\ output.intent = "compare" => Len(output.tickers) >= 2
             /\ output.tickers \in extract_tickers(input.text, input.ents)
             /\ output.intent =
                   IF intent = "compare" /\ Len(output.tickers) < 2
                   THEN "trend" ELSE intent

\* "compare AAPL" names a single ticker and no period: the result is
\* trend over 1y.
C19_Witness ==
    /\ Parsed
    /\ input.text = <<"c","o","m","p","a","r","e"," ","A","A","P","L">>
    /\ output = [tickers |-> <<<<"A","A","P","L">>>>, period |-> StrV(<<"1","y">>), intent |-> "trend"]

\* A token made of 2 to 5 upper-case letters and nothing else.
IsTicker(tok) ==
    /\ Len(tok) >= 2 /\ Len(tok) <= 5
    /\ \A i \in 1..Len(tok) : IsUpperChar(tok[i])

NumberUnitAt(s, i, j, p, units) ==
    /\ i <= j /\ j < p
    /\ \A k \in i..j : IsDigit(s[k])
    /\ \A k \in (j + 1)..(p - 1) : s[k] = " "
    /\ \E u \in units :
          /\ p + Len(u) - 1 <= Len(s)
          /\ \A k \in 1..Len(u) : s[p + k - 1] = u[k]
          /\ (p + Len(u) - 1 = Len(s) \/ ~IsWordChar(s[p + Len(u)]))

NumberUnitMatches(s, units) ==
    UNION {UNION {{<<i, j, p>> : p \in {q \in (j + 1)..Len(s) :
                                          NumberUnitAt(s, i, j, q, units)}} :
                  j \in {k \in i..Len(s) : \A d \in i..k : IsDigit(s[d])}} :
           i \in {k \in 1..Len(s) : IsDigit(s[k])}}

\* The number of the leftmost match, taken as long as it can be.
MatchedNumber(s, units) ==
    LET M == NumberUnitMatches(s, units)
        m == CHOOSE x \in M :
                \A o \in M : x[1] < o[1] \/ (x[1] = o[1] /\ x[2] >= o[2])
    IN SubSeq(s, m[1], m[2])

\* The period rules in their order: whether rule k matches the lower-cased
\* text, and the period it gives.
PeriodRuleMatches(k, s) ==
    CASE k = 1 -> Contains(s, <<"y","t","d">>) \/ Contains(s, <<"y","e","a","r"," ","t","o"," ","d","a","t","e">>)
      [] k = 2 -> NumberUnitMatches(s, {<<"m","o","n","t","h">>, <<"m","o","n","t","h","s">>, <<"m","o">>}) # {}
      [] k = 3 -> NumberUnitMatches(s, {<<"y","e","a","r">>, <<"y","e","a","r","s">>, <<"y","r">>, <<"y">>}) # {}
      [] k = 4 -> NumberUnitMatches(s, {<<"d","a","y">>, <<"d","a","y","s">>, <<"d">>}) # {}
      [] k = 5 -> Contains(s, <<"l","a","s","t"," ","m","o","n","t","h">>) \/ Contains(s, <<"p","a","s","t"," ","m","o","n","t","h">>)
      [] k = 6 -> Contains(s, <<"l","a","s","t"," ","s","i","x"," ","m","o","n","t","h","s">>) \/ Contains(s, <<"p","a","s","t"," ","s","i","x"," ","m","o","n","t","h","s">>)
      [] k = 7 -> Contains(s, <<"l","a","s","t"," ","y","e","a","r">>) \/ Contains(s, <<"p","a","s","t"," ","y","e","a","r">>)
      [] k = 8 -> Contains(s, <<"m","a","x">>) \/ Contains(s, <<"a","l","l"," ","t","i","m","e">>)

PeriodRuleResult(k, s) ==
    CASE k = 1 -> <<"y","t","d">>
      [] k = 2 -> MatchedNumber(s, {<<"m","o","n","t","h">>, <<"m","o","n","t","h","s">>, <<"m","o">>}) \o <<"m","o">>
      [] k = 3 -> MatchedNumber(s, {<<"y","e","a","r">>, <<"y","e","a","r","s">>, <<"y","r">>, <<"y">>}) \o <<"y">>
      [] k = 4 -> MatchedNumber(s, {<<"d","a","y">>, <<"d","a","y","s">>, <<"d">>}) \o <<"d">>
      [] k = 5 -> <<"1","m","o">>
      [] k = 6 -> <<"6","m","o">>
      [] k = 7 -> <<"1","y">>
      [] k = 8 -> <<"m","a","x">>

MatchingPeriodRules(text) == {k \in 1..8 : PeriodRuleMatches(k, Lower(text))}

\* C21: the period extracted from a text is the one given by the first
\* of the rules (ytd, months, years, days, last month, last six months, last
\* year, max) that matches it, whatever later rules match too, and it is
\* unset when no rule matches; the returned period is that one, or the
\* default.
C21_FirstPeriodRuleWins ==
    Parsed =>
        LET K == MatchingPeriodRules(input.text)
            first == CHOOSE k \in K : \A o \in K : k <= o
        IN /\ extract_period(input.text) =
                 IF K = {} THEN NullV
                 ELSE StrV(PeriodRuleResult(first, Lower(input.text)))
           /\ output.period = default_period(extract_period(input.text))

\* "5d 2y" matches the year rule and the day rule: the period is 2y.
C21_Witness ==
    /\ Parsed
    /\ input.text = <<"5","d"," ","2","y">>
    /\ MatchingPeriodRules(input.text) = {3, 4}
    /\ output.period = StrV(<<"2","y">>)


\* The words of each intent, in the order the intents are tried.
IntentOrder == <<"compare", "trend", "price">>
IntentWords(k) ==
    CASE k = 1 -> {<<"c","o","m","p","a","r","e">>, <<"v","s">>, <<"v","e","r","s","u","s">>}
      [] k = 2 -> {<<"t","r","e","n","d">>, <<"p","e","r","f","o","r","m","a","n","c","e">>, <<"h","i","s","t","o","r","y">>, <<"h","i","s","t","o","r","i","c","a","l">>}
      [] k = 3 -> {<<"p","r","i","c","e">>, <<"v","a","l","u","e">>}

MatchingIntents(text) ==
    {k \in 1..3 : \E w \in IntentWords(k) : Contains(Lower(text), w)}

\* C22: the intent extracted from a text is compare when it contains
\* compare, vs or versus in any letter case, whatever else it contains;
\* otherwise trend when it contains trend, performance, history or
\* historical; otherwise price when it contains price or value; otherwise
\* unknown.
C22_IntentCascade ==
    Parsed =>
        LET K == MatchingIntents(input.text)
            first == CHOOSE k \in K : \A o \in K : k <= o
            intent == IF K = {} THEN "unknown" ELSE IntentOrder[first]
        IN /\ extract_intent(input.text) = intent
           /\ output.intent = downgrade(intent, output.tickers)

\* "AAPL vs MSFT Price" holds a compare word and, capitalised, a price
\* word: the intent is compare.
C22_Witness ==
    /\ Parsed
    /\ input.text = <<"A","A","P","L"," ","v","s"," ","M","S","F","T"," ","P","r","i","c","e">>
    /\ MatchingIntents(input.text) = {1, 3}
    /\ output.intent = "compare"


\* The underlying value a record carries (the put side's, else the call
\* side's), null when it carries none.
CarriedSpot(record) ==
    IF side_has_underlying(record, "PE") THEN record["PE"]["underlyingValue"]
    ELSE IF side_has_underlying(record, "CE") THEN record["CE"]["underlyingValue"]
    ELSE NullV

SpotCarriers(recs) == {i \in 1..Len(recs) : CarriedSpot(recs[i]).t # "null"}

\* C23: the spot price is the underlying value of the first record, in
\* scan order, that carries a non-null one; later records do not replace it.
C23_FirstSpotKept ==
    \A c \in Calls :
        ChainReturned(c) /\ SpotCarriers(StrikeRecords(c)) # {} =>
            LET recs == StrikeRecords(c)
                first == CHOOSE i \in SpotCarriers(recs) :
                            \A o \in SpotCarriers(recs) : i <= o
            IN result[c].spot_price = CarriedSpot(recs[first])


\* The value held under `key` of a dict, null when the key is absent.
ValueAt(d, key) == IF key \in DOMAIN d THEN d[key] ELSE NullV

\* The underlying value of a record when the put side is preferred and the
\* call side stands in for a put side without one (absent or null).
PreferredSpot(record) ==
    LET put == IF "PE" \in DOMAIN record
               THEN ValueAt(record["PE"], "underlyingValue") ELSE NullV
        call == IF "CE" \in DOMAIN record
                THEN ValueAt(record["CE"], "underlyingValue") ELSE NullV
    IN IF put.t # "null" THEN put ELSE call

\* Every record of the document has an expiry date that parses.
DatesParse(recs) ==
    \A i \in 1..Len(recs) :
        /\ "expiryDate" \in DOMAIN recs[i]
        /\ strptime(recs[i]["expiryDate"].s).ok

\* C24: for a document whose records are well-formed the fetch succeeds,
\* and the spot price is a record's underlying value, the put side's before
\* the call side's, when some record has one; else the top-level
\* records.underlyingValue when that has a value; else null, returned
\* together with the expiries, calls and puts.
C24_SpotFallback ==
    \A c \in Calls :
        StrikeRecords(c) # <<>> /\ DatesParse(StrikeRecords(c)) =>
            LET recs == StrikeRecords(c)
                held == {PreferredSpot(recs[i]) : i \in 1..Len(recs)} \ {NullV}
                top == ValueAt(resp2[c].body.d["records"], "underlyingValue")
            IN /\ ~Handled(c)
               /\ result[c].expiry_dates_list # <<>>
               /\ IF held # {} THEN result[c].spot_price \in held
                  ELSE result[c].spot_price = top


\* ------------------------------------------------- the parsed document
\* Lines 85-99 work on the dicts of the parsed document themselves:
\* ce_data = record['CE'] names the payload inside the document, and
\* ce_data.update(common_data) writes the record's expiryDate into it.
MaxRecords == 2

\* One record after the second loop has passed it.
tag_sides(record) ==
    [k \in DOMAIN record |->
        IF k \in {"CE", "PE"} /\ DOMAIN record[k] # {}
        THEN tagged(record[k], record)
        ELSE record[k]]

\* A document whose payloads are all taken out by the extraction.
document_after_emptied(data) ==
    IF data.shape = "dict" /\ ~NoRecordList(data)
    THEN JsonDoc("dict",
                 [data.d EXCEPT !["records"]["data"] =
                     [i \in 1..Len(@) |-> [k \in DOMAIN @[i] \ {"CE", "PE"} |-> @[i][k]]]])
    ELSE data

\* The document as lines 63-108 leave it: untouched when they return early
\* or raise (every raise comes before line 88), its payloads tagged
\* otherwise.
document_after(data) ==
    IF /\ data.shape = "dict" /\ ~NoRecordList(data)
       /\ \A o \in extract_option_chain(data) : o.exc = ""
    THEN JsonDoc("dict",
                 [data.d EXCEPT !["records"]["data"] =
                     [i \in 1..Len(@) |-> tag_sides(@[i])]])
    ELSE data

\* The outcomes of a second run in the same process: a set of the same
\* strings built in the same order iterates in the same order, so equal
\* dates come out in the order of the first run.
rerun_outcomes(first, data) ==
    {o \in extract_option_chain(data) :
        (/\ o.exc = "" /\ first.exc = ""
         /\ {o.value.expiry_dates_list[i] : i \in 1..Len(o.value.expiry_dates_list)}
              = {first.value.expiry_dates_list[i] :
                    i \in 1..Len(first.value.expiry_dates_list)})
        => o.value.expiry_dates_list = first.value.expiry_dates_list}

\* A call payload that does not itself name its expiry.
Rec_untagged ==
    WithSide(StrikeRecord(140, e_25Jan), "CE",
             ("strikePrice" :> NumV(140)) @@ ("openInterest" :> NumV(2)))

ChainRecords ==
    {Rec_both, Rec_call_only, Rec_put_plain, Rec_empty_sides, Rec_put_null,
     Rec_untagged, Rec_put_feb, Rec_bad_expiry}

ChainTops == {EmptyDict, "underlyingValue" :> NullV, "underlyingValue" :> NumV(100)}

ChainDocs ==
    {RecordsDoc(top @@ ("data" :> recs)) :
        top \in ChainTops,
        recs \in UNION {[1..k -> ChainRecords] : k \in 0..MaxRecords}}

InitChain ==
    /\ InitCalls
    /\ InitPages
    /\ fn = ""
    /\ input \in ChainDocs
    /\ output = NoResult

\* Lines 63-108 run on the parsed document.
ExtractChain ==
    /\ fn = ""
    /\ fn' = "extract"
    /\ \E o \in extract_option_chain(input) :
          output' = [first |-> o, data |-> document_after(input),
                     second |-> NoResult]
    /\ UNCHANGED <<input, call_vars, page_vars>>

\* Lines 63-108 run again, on the document object the first run left.
ExtractAgain ==
    /\ fn = "extract"
    /\ fn' = "extract_again"
    /\ \E o \in rerun_outcomes(output.first, output.data) :
          output' = [first |-> output.first, data |-> document_after(output.data),
                     second |-> o]
    /\ UNCHANGED <<input, call_vars, page_vars>>

SpecChain == InitChain /\ [][ExtractChain \/ ExtractAgain]_vars


\* The first run on the document has returned a chain.
Extracted == fn = "extract" /\ output.first.exc = "" /\ ~NoRecordList(input)

\* The records of a document that carry a non-empty payload on `side`.
WithPayload(recs, side) ==
    {i \in 1..Len(recs) : side \in DOMAIN recs[i] /\ DOMAIN recs[i][side] # {}}

\* The n-th of them, in record order.
NthWithPayload(recs, side, n) ==
    CHOOSE i \in WithPayload(recs, side) :
        Cardinality({j \in WithPayload(recs, side) : j <= i}) = n

\* A payload with the expiry date of its record written over it.
Tagged(record, side) ==
    [k \in DOMAIN record[side] \cup {"expiryDate"} |->
        IF k = "expiryDate" THEN record["expiryDate"] ELSE record[side][k]]

IsFlatList(flat, recs, side) ==
    /\ Len(flat) = Cardinality(WithPayload(recs, side))
    /\ \A n \in 1..Len(flat) :
          flat[n] = Tagged(recs[NthWithPayload(recs, side, n)], side)

\* C25: the calls list holds, in record order, one entry for each record
\* with a non-empty CE payload, the payload tagged with the record's
\* expiryDate; the puts list likewise for PE; and the document is after the
\* extraction what it was before.
C25_FlattenLeavesDocument ==
    Extracted =>
        LET recs == input.d["records"]["data"] IN
        /\ IsFlatList(output.first.value.calls_df, recs, "CE")
        /\ IsFlatList(output.first.value.puts_df, recs, "PE")
        /\ output.data = input


C27_UnparseableStrikeExcluded ==
    fn = "open_interest_analysis" =>
        LET rows == output.oi_by_strike
            S == StrikesOf(input.calls) \cup StrikesOf(input.puts)
        IN /\ \A i \in 1..Len(rows) : rows[i]["strikePrice"].n \in S
           /\ \A s \in S : \E i \in 1..Len(rows) : rows[i]["strikePrice"].n = s
           /\ \A i \in 1..Len(input.calls) :
                 LET r == input.calls[i] IN
                 to_numeric_cell(r["strikePrice"]).t = "num"
                 /\ to_numeric_cell(r["openInterest"]).t # "num"
                 => \E k \in 1..Len(rows) :
                       /\ rows[k]["strikePrice"].n = ShownStrike(r)
                       /\ rows[k]["Call OI"].n = 0


\* ------------------------------------------------------------ pages
\* One run of a page script from top to bottom, as Streamlit makes on every
\* interaction.  st.session_state lasts for the browser session,
\* st.cache_data for the server.

\* session_state.pop(key, None) for several keys; session_state[key] = v
pop_keys(d, keys) == [k \in DOMAIN d \ keys |-> d[k]]
set_key(d, k, v) == (k :> v) @@ d

\* How the latest fetch for subject s had ended.
fetch_status(s) ==
    IF s \in DOMAIN rerun.last_fetch THEN rerun.last_fetch[s] ELSE "none"

\* What fetch_josaa_orcr_data(round_no=4) can return: the empty DataFrame
\* or the cleaned table.
LoadedDF == DF(CanonicalColumns, <<Row(NumV(12), NumV(34))>>)
JosaaResults == {JosaaFailure, LoadedDF}

\* pages/3_jee_analyzer.py, lines 20-29: @st.cache_data around the fetch.  A
\* value cached for the function is returned without running it; otherwise
\* the fetch runs and whatever it returns is cached.
load_josaa_data_round_4(cache) ==
    IF "load_josaa_data_round_4" \in DOMAIN cache
    THEN {[df |-> cache["load_josaa_data_round_4"], cache |-> cache, fetched |-> FALSE]}
    ELSE {[df |-> df, cache |-> set_key(cache, "load_josaa_data_round_4", df),
           fetched |-> TRUE] : df \in JosaaResults}

\* pages/3_jee_analyzer.py, lines 32-55: one run of the JEE page, with the
\* Load/Refresh button pressed or not.
JeeRerun(pressed) ==
    /\ IF ~pressed
       THEN /\ UNCHANGED <<session_state, cache_data>>
            /\ rerun' = [page |-> "jee", pressed |-> FALSE, fetched |-> FALSE,
                         shown |-> IF "josaa_df" \in DOMAIN session_state
                                   THEN "loaded" ELSE "not_loaded",
                         prior |-> fetch_status("jee"),
                         last_fetch |-> rerun.last_fetch]
       ELSE LET had == "josaa_df" \in DOMAIN session_state
                cleared_state == pop_keys(session_state, {"josaa_df"})
                cleared_cache == IF had THEN EmptyDict ELSE cache_data
            IN \E got \in load_josaa_data_round_4(cleared_cache) :
                  /\ cache_data' = got.cache
                  /\ session_state' =
                        IF ~IsEmptyDF(got.df)
                        THEN set_key(cleared_state, "josaa_df", got.df)
                        ELSE cleared_state
                  /\ rerun' = [page |-> "jee", pressed |-> TRUE,
                               fetched |-> got.fetched,
                               shown |-> IF ~IsEmptyDF(got.df) THEN "success" ELSE "error",
                               prior |-> fetch_status("jee"),
                               last_fetch |->
                                   IF got.fetched
                                   THEN set_key(rerun.last_fetch, "jee",
                                                IF IsEmptyDF(got.df) THEN "failed" ELSE "ok")
                                   ELSE rerun.last_fetch]
    /\ UNCHANGED <<call_vars, fn_vars>>


\* pages/indian_indices_dashboard.py, lines 17-30: the indices the page
\* offers and the ones that have an NSE symbol.
INDIAN_INDICES == {"NIFTY 50", "NIFTY BANK", "SENSEX"}
NSE_SYMBOL_MAP == ("NIFTY 50" :> "NIFTY") @@ ("NIFTY BANK" :> "BANKNIFTY")

\* What fetch_nse_option_data(symbol) can hand to the page: the failure
\* value, a chain with a spot price, a chain whose spot price is null.
NseResults ==
    {NseFailure} \cup
    {o.value : o \in {r \in extract_option_chain(Doc_chain) \cup
                            extract_option_chain(Doc_bare) : r.exc = ""}}

DataSuffixes == {"_spot", "_expiries", "_all_calls", "_all_puts"}
RefreshSuffixes == DataSuffixes \cup {"_symbol_loaded", "_fetch_error"}

\* A Refresh button that leaves the session state alone.
refresh_nothing(state, prefix) == state

\* lines 72-74: the Refresh button pops the six keys of the symbol.
refresh(state, prefix) == pop_keys(state, {prefix \o x : x \in RefreshSuffixes})

\* line 76 and line 98: session_state.get(prefix_symbol_loaded) == nse_symbol
symbol_loaded(state, prefix, nse_symbol) ==
    /\ (prefix \o "_symbol_loaded") \in DOMAIN state
    /\ state[prefix \o "_symbol_loaded"] = nse_symbol

\* session_state.get(prefix_fetch_error), as a truth value
fetch_error(state, prefix) ==
    /\ (prefix \o "_fetch_error") \in DOMAIN state
    /\ state[prefix \o "_fetch_error"]

\* line 76: fetch unless the symbol is loaded, and whenever the error flag is set
needs_fetch(state, prefix, nse_symbol) ==
    ~symbol_loaded(state, prefix, nse_symbol) \/ fetch_error(state, prefix)

\* line 79: "basic check for successful fetch"
fetch_succeeded(r) == r.spot_price.t # "null" /\ Len(r.expiry_dates_list) > 0

\* lines 80-85: a successful fetch is stored
store_fetched(state, prefix, nse_symbol, r) ==
    ((prefix \o "_spot") :> r.spot_price) @@
    ((prefix \o "_expiries") :> r.expiry_dates_list) @@
    ((prefix \o "_all_calls") :> r.calls_df) @@
    ((prefix \o "_all_puts") :> r.puts_df) @@
    ((prefix \o "_symbol_loaded") :> nse_symbol) @@
    ((prefix \o "_fetch_error") :> FALSE) @@ state

\* lines 88-94: a failed fetch sets the error flag and fills in defaults
store_failed(state, prefix) ==
    ((prefix \o "_fetch_error") :> TRUE) @@ state @@
    ((prefix \o "_spot") :> NullV) @@
    ((prefix \o "_expiries") :> <<>>) @@
    ((prefix \o "_all_calls") :> <<>>) @@
    ((prefix \o "_all_puts") :> <<>>)

\* lines 64-98 and 197-200: one run of the dashboard with an index selected
\* and the Refresh button pressed or not (the button exists for mapped
\* indices only).
DashboardRerun(selected_index_name, pressed) ==
    /\ selected_index_name \in INDIAN_INDICES
    /\ IF selected_index_name \notin DOMAIN NSE_SYMBOL_MAP
       THEN /\ ~pressed
            /\ UNCHANGED session_state
            /\ rerun' = [page |-> selected_index_name, pressed |-> FALSE,
                         fetched |-> FALSE, shown |-> "not_configured",
                         prior |-> fetch_status(selected_index_name),
                         last_fetch |-> rerun.last_fetch]
       ELSE LET nse_symbol == NSE_SYMBOL_MAP[selected_index_name]
                nse_data_key_prefix == "nse_data_" \o nse_symbol
                popped == IF pressed THEN refresh(session_state, nse_data_key_prefix)
                          ELSE session_state
                fetch == needs_fetch(popped, nse_data_key_prefix, nse_symbol)
            IN \E r \in NseResults :
                  /\ ~fetch => r = NseFailure
                  /\ session_state' =
                        IF ~fetch THEN popped
                        ELSE IF fetch_succeeded(r)
                             THEN store_fetched(popped, nse_data_key_prefix, nse_symbol, r)
                             ELSE store_failed(popped, nse_data_key_prefix)
                  /\ rerun' = [page |-> selected_index_name, pressed |-> pressed,
                               fetched |-> fetch,
                               shown |->
                                   IF /\ symbol_loaded(session_state', nse_data_key_prefix, nse_symbol)
                                      /\ ~fetch_error(session_state', nse_data_key_prefix)
                                   THEN "options" ELSE "unavailable",
                               prior |-> fetch_status(selected_index_name),
                               last_fetch |->
                                   IF fetch
                                   THEN set_key(rerun.last_fetch, selected_index_name,
                                                IF fetch_succeeded(r) THEN "ok" ELSE "failed")
                                   ELSE rerun.last_fetch]
    /\ UNCHANGED <<call_vars, fn_vars, cache_data>>

InitPagesSpec ==
    InitCalls /\ InitPages /\ fn = "" /\ input = NoResult /\ output = NoResult
JeePage == \E pressed \in BOOLEAN : JeeRerun(pressed)
DashboardPage ==
    \E selected_index_name \in INDIAN_INDICES, pressed \in BOOLEAN :
        DashboardRerun(selected_index_name, pressed)
SpecPages == InitPagesSpec /\ [][JeePage \/ DashboardPage]_vars

\* C28: on the JEE page a press of the Load/Refresh button never ends in
\* the load-failed message without a fetch having been made in that run: a
\* failed load is not served again from the cache.
C28_FailureNotServedFromCache ==
    (rerun.page = "jee" /\ rerun.pressed /\ rerun.shown = "error") => rerun.fetched


\* C29: on the dashboard, options data is displayed for a symbol only if
\* the most recent fetch for that symbol succeeded; a run with Refresh
\* pressed, or after a failed fetch, always fetches again; a run after a
\* successful fetch without Refresh pressed does not fetch.
C29_FetchDiscipline ==
    rerun.page \in DOMAIN NSE_SYMBOL_MAP =>
        /\ rerun.shown = "options" => fetch_status(rerun.page) = "ok"
        /\ (rerun.pressed \/ rerun.prior = "failed") => rerun.fetched
        /\ (~rerun.pressed /\ rerun.prior = "ok") => ~rerun.fetched

\* A run after a successful fetch, without Refresh, shows the stored chain
\* and fetches nothing, while the other index's latest fetch had failed.
C29_Witness ==
    /\ rerun.page = "NIFTY 50"
    /\ ~rerun.pressed /\ rerun.prior = "ok" /\ ~rerun.fetched
    /\ rerun.shown = "options"
    /\ fetch_status("NIFTY BANK") = "failed"


\* ------------------------------------------------------------ app.py
\* One press of "Analyze Query" with a query in the text box.

\* lines 34-36: the period handed to get_stock_data
fetch_period(intent, period) ==
    IF intent = "price" /\ period = StrV(P_1y) THEN StrV(<<"5","d">>) ELSE period

\* lines 21-38: what the page does with a parsed query; `calls` holds the
\* calls of get_stock_data it makes.
analyze(parsed_result) ==
    IF parsed_result.tickers = <<>>
    THEN [parsed_result |-> parsed_result, shown |-> "error", calls |-> <<>>]
    ELSE [parsed_result |-> parsed_result, shown |-> "analysis",
          calls |-> <<[tickers |-> parsed_result.tickers,
                       period |-> fetch_period(parsed_result.intent,
                                               parsed_result.period)]>>]

\* lines 12-38 and 137-138: main() with the button pressed
main(query, ents) ==
    IF query = <<>>
    THEN {[parsed_result |-> NoResult, shown |-> "warning", calls |-> <<>>]}
    ELSE {analyze(parsed_result) : parsed_result \in parse_query(query, ents)}

\* Queries typed into the app: those of the parser, and the page's own
\* example "Price of NVDA" followed by a phrase.
PriceOfNVDA == <<"P","r","i","c","e"," ","o","f"," ","N","V","D","A">>
AppTexts == QueryTexts \cup {PriceOfNVDA} \cup {JoinWords(<<PriceOfNVDA, p>>) : p \in Phrases}
AppQueries ==
    UNION {{[text |-> t, ents |-> e] : e \in TaggerResults(t)} : t \in AppTexts}

InitApp ==
    /\ InitCalls
    /\ InitPages
    /\ fn = ""
    /\ input \in AppQueries
    /\ output = NoResult

AnalyzeQuery ==
    /\ fn = ""
    /\ fn' = "main"
    /\ output' \in main(input.text, input.ents)
    /\ UNCHANGED <<input, call_vars, page_vars>>

SpecApp == InitApp /\ [][AnalyzeQuery]_vars

\* The press of the button has been handled.
Analyzed == fn = "main"

\* The period the query states, null when it states none.
StatedPeriod == extract_period(input.text)

\* C30: after a press of Analyze Query, no data is fetched when the query
\* names no ticker; otherwise get_stock_data receives the period the query
\* states, and when the query states none, 5d for a price query and 1y for
\* any other.
C30_StatedPeriodFetched ==
    Analyzed =>
        /\ output.shown # "analysis" => output.calls = <<>>
        /\ output.shown = "analysis" =>
              /\ Len(output.calls) = 1
              /\ output.calls[1].tickers = output.parsed_result.tickers
              /\ output.calls[1].period =
                    IF StatedPeriod.t # "null" THEN StatedPeriod
                    ELSE IF output.parsed_result.intent = "price" THEN StrV(<<"5","d">>)
                    ELSE StrV(P_1y)

=============================================================================
